---- MODULE Spec2Model ----
(***************************************************************************)
(* Duplicate asset scanner (asset-audit.js): the AssetAudit class walking  *)
(* a file tree, hashing eligible files and reporting duplicate groups.     *)
(* Paths and names are sequences of one-character strings so that the      *)
(* substring, extension and lower-casing operations are computed.          *)
(***************************************************************************)
EXTENDS Integers, Sequences, FiniteSets, TLC

VARIABLES
    fs,             \* the file tree under the scan root, with its I/O faults
    argOptions,     \* the options object handed to new AssetAudit(options)
    scanner,        \* number of AssetAudit objects constructed so far (0: none)
    options,        \* this.options
    filesByHash,    \* this.filesByHash (Map, in key insertion order)
    processedFiles, \* this.processedFiles
    totalFiles,     \* this.totalFiles
    calls,          \* completed analyze calls, oldest first, with what each did
    argv,           \* process.argv.slice(2) of a command-line run
    results,        \* the report handed to printResults (null: none yet)
    stdout,         \* what has been written to standard output, oldest first
    exitCode,       \* the exit status of the process (undefined while it runs)
    currentDirectory, \* App: the directory on display
    files,          \* App: the entries on display
    openFile,       \* App: the file in the viewer (null: viewer closed)
    toast,          \* App: the toast on display (null: none)
    pending,        \* App: the calls to the main process that await their answer
    timers,         \* App: the timers set and not yet fired, oldest first
    loads,          \* App: the directory listings requested so far, oldest first
    lastStep,       \* App: what the last step of the renderer was
    clicks,         \* App: how many times the user has acted
    callArgs,       \* the arguments of a call of a function on its own
    returned        \* what that call returned (undefined: not yet called)

\* the state of the scanner and of its command line
scanVars == <<argOptions, scanner, options, filesByHash, processedFiles, totalFiles,
              calls, argv, results, stdout, exitCode>>
\* the state of the renderer
appVars == <<currentDirectory, files, openFile, toast, pending, timers, loads, lastStep,
             clicks>>
\* a function called on its own
fnVars == <<callArgs, returned>>

vars == <<fs, scanVars, appVars, fnVars>>

------------------------------------------------------------------------------
(* Bounds of the model *)

\* I/O calls that fail in one tree (readdirSync, statSync, readFileSync)
MaxFaults == 1
\* analyze calls observed in one behaviour
MaxCalls == 2

------------------------------------------------------------------------------
(* Strings *)

\* An optional JavaScript value: <<>> for undefined or null, <<v>> for the value v
Undefined == <<>>
Null == <<>>
Some(v) == <<v>>

Sep == "/"

UpperCase == <<"A","B","C","D","E","F","G","H","I","J","K","L","M",
               "N","O","P","Q","R","S","T","U","V","W","X","Y","Z">>
LowerCase == <<"a","b","c","d","e","f","g","h","i","j","k","l","m",
               "n","o","p","q","r","s","t","u","v","w","x","y","z">>

\* String.prototype.toLowerCase
toLowerCase(s) ==
    [i \in 1..Len(s) |->
        IF \E k \in 1..Len(UpperCase) : UpperCase[k] = s[i]
        THEN LowerCase[CHOOSE k \in 1..Len(UpperCase) : UpperCase[k] = s[i]]
        ELSE s[i]]

\* String.prototype.includes
includes(s, p) ==
    \E i \in 1..(Len(s) - Len(p) + 1) : SubSeq(s, i, i + Len(p) - 1) = p

\* path.extname: from the last "." of the name, unless there is none or it is
\* the first character
extname(p) ==
    LET dots == {i \in 1..Len(p) : p[i] = "."}
        slashes == {i \in 1..Len(p) : p[i] = Sep}
        start == IF slashes = {} THEN 1
                 ELSE 1 + CHOOSE i \in slashes : \A j \in slashes : j <= i
        inBase == {i \in dots : i >= start}
    IN IF inBase = {} THEN <<>>
       ELSE LET k == CHOOSE i \in inBase : \A j \in inBase : j <= i
            IN IF k = start THEN <<>> ELSE SubSeq(p, k, Len(p))

\* path.join(dir, name)
join(dir, name) == dir \o <<Sep>> \o name

\* path.relative(baseDir, fullPath), for a fullPath beneath baseDir
relative(baseDir, fullPath) == SubSeq(fullPath, Len(baseDir) + 2, Len(fullPath))

------------------------------------------------------------------------------
(* Option defaults of the constructor *)

DefaultMinSize == 100

DefaultExcludePatterns ==
    << <<"n","o","d","e","_","m","o","d","u","l","e","s">>,
       <<".","g","i","t">>,
       <<"d","i","s","t">>,
       <<"b","u","i","l","d">>,
       <<".","n","e","x","t">>,
       <<"c","o","v","e","r","a","g","e">> >>

DefaultExtensions ==
    << <<".","p","n","g">>, <<".","j","p","g">>, <<".","j","p","e","g">>,
       <<".","g","i","f">>, <<".","s","v","g">>, <<".","w","e","b","p">>,
       <<".","i","c","o">>, <<".","a","v","i","f">>,
       <<".","w","o","f","f">>, <<".","w","o","f","f","2">>, <<".","t","t","f">>,
       <<".","e","o","t">>, <<".","o","t","f">>,
       <<".","m","p","4">>, <<".","w","e","b","m">>, <<".","m","p","3">>,
       <<".","w","a","v">>,
       <<".","p","d","f">> >>

\* this.options as the constructor builds it: each field is options.f || default,
\* and undefined, 0 and false are the falsy values the fields can take
constructorOptions(o) ==
    [minSize         |-> IF o.minSize = Undefined \/ o.minSize[1] = 0
                         THEN DefaultMinSize ELSE o.minSize[1],
     excludePatterns |-> IF o.exclude = Undefined
                         THEN DefaultExcludePatterns ELSE o.exclude[1],
     verbose         |-> IF o.verbose = Undefined THEN FALSE ELSE o.verbose[1],
     json            |-> IF o.json = Undefined THEN FALSE ELSE o.json[1],
     extensions      |-> IF o.extensions = Undefined
                         THEN DefaultExtensions ELSE o.extensions[1]]

------------------------------------------------------------------------------
(* The file tree the scanner reads *)

RootDir == <<"/","r">>
SubName == <<"d","i","s","t">>
SubDir == join(RootDir, SubName)

Png == <<".","p","n","g">>

\* the directory entries (Dirent) entry k of the tree can be: a name, and
\* whether it isFile() or neither isFile() nor isDirectory() (a link, a socket)
EntryChoices(k) ==
    CASE k = 1 -> {[name |-> <<"a">> \o Png, kind |-> "file"],
                   [name |-> <<"a",".","t","x","t">>, kind |-> "file"],
                   [name |-> SubName \o Png, kind |-> "file"],
                   [name |-> <<"a">> \o Png, kind |-> "other"]}
      [] k = 2 -> {[name |-> <<"b",".","P","N","G">>, kind |-> "file"]}
      [] OTHER -> {[name |-> <<LowerCase[k]>> \o Png, kind |-> "file"]}

\* file contents: a size in bytes and which bytes; equal records are
\* byte-identical contents
Contents ==
    {c \in [size : {DefaultMinSize \div 2, DefaultMinSize}, data : {0, 1}] :
        c.size = DefaultMinSize \/ c.data = 0}

\* the file entries of the tree: 1 and 3 in the root, before and after the
\* subdirectory, 2 and 4 in the subdirectory
Files == {1, 2, 3, 4}
DirOf(k) == IF k \in {2, 4} THEN SubDir ELSE RootDir

Dirs == {RootDir, SubDir}

\* the I/O calls that can fail: readdirSync of a directory, statSync and
\* readFileSync of a file
FaultChoices(paths) ==
    {f \in SUBSET ({<<"readdir", d>> : d \in Dirs}
                   \cup {<<"stat", p>> : p \in paths}
                   \cup {<<"read", p>> : p \in paths}) : Cardinality(f) <= MaxFaults}

\* the contents of the entries: data 1 only for a content that differs from
\* an earlier entry's content of the same size
ContentChoices ==
    {c \in [Files -> Contents] :
        \A k \in Files : c[k].data = 1 =>
            \E j \in Files : j < k /\ c[j].size = c[k].size /\ c[j].data = 0}

\* the tree: the root lists entry 1, the subdirectory and entry 3; the
\* subdirectory lists entries 2 and 4
Tree(ents, contents, faults) ==
    LET paths == {join(DirOf(k), ents[k].name) : k \in Files}
    IN [listing |-> [d \in Dirs |->
                        IF d = RootDir
                        THEN <<ents[1], [name |-> SubName, kind |-> "directory"], ents[3]>>
                        ELSE <<ents[2], ents[4]>>],
        content |-> [p \in paths |->
                        contents[CHOOSE k \in Files : join(DirOf(k), ents[k].name) = p]],
        faults  |-> faults]

Trees ==
    UNION {
        {Tree(ents, contents, faults) :
            contents \in ContentChoices,
            faults \in FaultChoices({join(DirOf(k), ents[k].name) : k \in Files})} :
        ents \in {f \in [Files -> UNION {EntryChoices(k) : k \in Files}] :
                    \A k \in Files : f[k] \in EntryChoices(k)}}

\* the options objects a caller passes to the constructor
OptionChoices ==
    [minSize    : {Undefined, Some(DefaultMinSize \div 2)},
     exclude    : {Undefined, Some(<< <<"a">> >>)},
     verbose    : {Undefined},
     json       : {Undefined},
     extensions : {Undefined}]

------------------------------------------------------------------------------
(* AssetAudit *)

\* what one analyze call did to the file system, by full path
NoLog == [readdir |-> {}, visited |-> {}, counted |-> {}, stat |-> {},
          processed |-> {}, read |-> {}]

\* crypto.createHash('md5').update(content).digest('hex'): a digest that
\* differs whenever the contents differ (no collisions among the contents
\* of the model)
md5(content) == <<"md5", content.size, content.data>>

\* getFileHash: the digest of the file's bytes, null when readFileSync throws
getFileHash(w, filePath) ==
    IF <<"read", filePath>> \in w.faults THEN Null ELSE md5(w.content[filePath])

\* shouldExclude testing only the separator-bounded form of each pattern
shouldExclude_boundedOnly(o, filePath) ==
    \E n \in 1..Len(o.excludePatterns) :
        includes(filePath, <<Sep>> \o o.excludePatterns[n] \o <<Sep>>)

\* shouldExclude
shouldExclude(o, filePath) ==
    \E n \in 1..Len(o.excludePatterns) :
        LET pattern == o.excludePatterns[n]
        IN \/ includes(filePath, pattern)
           \/ includes(filePath, <<Sep>> \o pattern \o <<Sep>>)

\* hasValidExtension
hasValidExtension(o, filePath) ==
    LET ext == toLowerCase(extname(filePath))
    IN \E n \in 1..Len(o.extensions) : o.extensions[n] = ext

\* Map.prototype.has / the index of the key's entry
mapHas(m, key) == \E n \in 1..Len(m) : m[n].hash = key
mapIndex(m, key) == CHOOSE n \in 1..Len(m) : m[n].hash = key

\* processFile without the test of the hash
processFile_noHashTest(st, w, fullPath, relativePath, stats) ==
    LET hash == getFileHash(w, fullPath)
        st1 == [st EXCEPT !.processedFiles = @ + 1,
                          !.log.processed = @ \cup {fullPath},
                          !.log.read = @ \cup {fullPath}]
        record == [path |-> fullPath, relativePath |-> relativePath,
                   size |-> stats.size,
                   extension |-> toLowerCase(extname(fullPath))]
        m == IF mapHas(st1.filesByHash, hash) THEN st1.filesByHash
             ELSE Append(st1.filesByHash, [hash |-> hash, files |-> <<>>])
        n == mapIndex(m, hash)
    IN [st1 EXCEPT !.filesByHash = [m EXCEPT ![n].files = Append(@, record)]]

\* processFile: count the file, hash it, and append its record under its hash
processFile(st, w, fullPath, relativePath, stats) ==
    LET hash == getFileHash(w, fullPath)
        st1 == [st EXCEPT !.processedFiles = @ + 1,
                          !.log.processed = @ \cup {fullPath},
                          !.log.read = @ \cup {fullPath}]
        record == [path |-> fullPath, relativePath |-> relativePath,
                   size |-> stats.size,
                   extension |-> toLowerCase(extname(fullPath))]
    IN IF hash # Null
       THEN LET m == IF mapHas(st1.filesByHash, hash) THEN st1.filesByHash
                     ELSE Append(st1.filesByHash, [hash |-> hash, files |-> <<>>])
                n == mapIndex(m, hash)
            IN [st1 EXCEPT !.filesByHash = [m EXCEPT ![n].files = Append(@, record)]]
       ELSE st1

\* the size test with > for >=
meetsMinSize_strict(o, stats) == stats.size > o.minSize

\* the size test of the walk: stats.size >= this.options.minSize
meetsMinSize(o, stats) == stats.size >= o.minSize

\* a catch block that throws the error on
catchScanError_rethrow(st) == st

\* the catch block of scanDirectory: the error goes no further (it is only
\* logged, when verbose)
catchScanError(st) == [st EXCEPT !.thrown = FALSE]

RECURSIVE scanDirectory(_, _, _, _, _)
RECURSIVE scanEntries(_, _, _, _, _, _, _)

\* the for loop of scanDirectory from entry i on; st.thrown says that an
\* exception is propagating, which ends the loop
scanEntries(st, w, o, dir, baseDir, entries, i) ==
    IF i > Len(entries) \/ st.thrown THEN st
    ELSE
      LET entry == entries[i]
          fullPath == join(dir, entry.name)
          relativePath == relative(baseDir, fullPath)
          seen == [st EXCEPT !.log.visited = @ \cup {fullPath}]
      IN IF shouldExclude(o, relativePath)
         THEN scanEntries(seen, w, o, dir, baseDir, entries, i + 1)
         ELSE IF entry.kind = "directory"
         THEN scanEntries(scanDirectory(seen, w, o, fullPath, baseDir),
                          w, o, dir, baseDir, entries, i + 1)
         ELSE IF entry.kind = "file" /\ hasValidExtension(o, entry.name)
         THEN LET counted == [seen EXCEPT !.totalFiles = @ + 1,
                                          !.log.counted = @ \cup {fullPath},
                                          !.log.stat = @ \cup {fullPath}]
              IN IF <<"stat", fullPath>> \in w.faults
                 THEN [counted EXCEPT !.thrown = TRUE]
                 ELSE LET stats == [size |-> w.content[fullPath].size]
                      IN IF meetsMinSize(o, stats)
                         THEN scanEntries(
                                processFile(counted, w, fullPath, relativePath, stats),
                                w, o, dir, baseDir, entries, i + 1)
                         ELSE scanEntries(counted, w, o, dir, baseDir, entries, i + 1)
         ELSE scanEntries(seen, w, o, dir, baseDir, entries, i + 1)

\* scanDirectory: list the directory and walk its entries inside try; a throw
\* of readdirSync (a listing that fails, a directory that does not exist) or
\* of the loop is caught
scanDirectory(st, w, o, dir, baseDir) ==
    LET base == IF baseDir = Null THEN dir ELSE baseDir
        st1 == [st EXCEPT !.log.readdir = @ \cup {dir}]
    IN catchScanError(
         IF <<"readdir", dir>> \in w.faults \/ dir \notin DOMAIN w.listing
         THEN [st1 EXCEPT !.thrown = TRUE]
         ELSE scanEntries(st1, w, o, dir, base, w.listing[dir], 1))

\* groupOf counting every copy, the first included, as wasted
groupOf_everyCopyWasted(e) ==
    [hash        |-> e.hash,
     count       |-> Len(e.files),
     fileSize    |-> e.files[1].size,
     wastedBytes |-> e.files[1].size * Len(e.files),
     extension   |-> e.files[1].extension,
     files       |-> [n \in 1..Len(e.files) |-> e.files[n].relativePath]]

\* the duplicate group built from one entry of filesByHash
groupOf(e) ==
    [hash        |-> e.hash,
     count       |-> Len(e.files),
     fileSize    |-> e.files[1].size,
     wastedBytes |-> e.files[1].size * (Len(e.files) - 1),
     extension   |-> e.files[1].extension,
     files       |-> [n \in 1..Len(e.files) |-> e.files[n].relativePath]]

\* the loop over filesByHash.entries(): one group per key with several files
RECURSIVE collectGroups(_, _)
collectGroups(m, n) ==
    IF n > Len(m) THEN <<>>
    ELSE IF Len(m[n].files) > 1
         THEN <<groupOf(m[n])>> \o collectGroups(m, n + 1)
         ELSE collectGroups(m, n + 1)

\* totalWastedBytes overwritten by each group instead of accumulated
RECURSIVE sumWasted_lastOnly(_, _)
sumWasted_lastOnly(m, n) ==
    IF n > Len(m) THEN 0
    ELSE LET rest == sumWasted_lastOnly(m, n + 1)
         IN IF Len(m[n].files) > 1 /\ rest = 0
            THEN m[n].files[1].size * (Len(m[n].files) - 1)
            ELSE rest

\* totalWastedBytes as the same loop accumulates it
RECURSIVE sumWasted(_, _)
sumWasted(m, n) ==
    IF n > Len(m) THEN 0
    ELSE IF Len(m[n].files) > 1
         THEN m[n].files[1].size * (Len(m[n].files) - 1) + sumWasted(m, n + 1)
         ELSE sumWasted(m, n + 1)

\* the comparator of the sort: negative when a goes before b
compareGroups(a, b) == b.wastedBytes - a.wastedBytes

\* a sort that puts a group before the earlier groups it ties with
RECURSIVE sortGroups_tiesReversed(_)
sortGroups_tiesReversed(gs) ==
    IF gs = <<>> THEN <<>>
    ELSE LET front == sortGroups_tiesReversed(SubSeq(gs, 1, Len(gs) - 1))
             g == gs[Len(gs)]
             keep == {n \in 1..Len(front) : compareGroups(front[n], g) < 0}
             k == Cardinality(keep)
         IN SubSeq(front, 1, k) \o <<g>> \o SubSeq(front, k + 1, Len(front))

\* Array.prototype.sort with that comparator: a stable sort
RECURSIVE sortGroups(_)
sortGroups(gs) ==
    IF gs = <<>> THEN <<>>
    ELSE LET front == sortGroups(SubSeq(gs, 1, Len(gs) - 1))
             g == gs[Len(gs)]
             keep == {n \in 1..Len(front) : compareGroups(front[n], g) <= 0}
             k == Cardinality(keep)
         IN SubSeq(front, 1, k) \o <<g>> \o SubSeq(front, k + 1, Len(front))

\* duplicateGroups.reduce((acc, g) => acc + g.count - 1, 0)
RECURSIVE sumDuplicates(_)
sumDuplicates(gs) ==
    IF gs = <<>> THEN 0
    ELSE sumDuplicates(SubSeq(gs, 1, Len(gs) - 1)) + gs[Len(gs)].count - 1

\* analyze: walk the directory, then build the report from the fields; an
\* exception leaving scanDirectory would leave analyze without a report
analyze(st, w, o, directory) ==
    LET scanned == scanDirectory([st EXCEPT !.log = NoLog, !.thrown = FALSE],
                                 w, o, directory, Null)
        duplicateGroups == sortGroups(collectGroups(scanned.filesByHash, 1))
        stats == [totalFilesScanned   |-> scanned.totalFiles,
                  totalFilesProcessed |-> scanned.processedFiles,
                  uniqueFiles         |-> Len(scanned.filesByHash),
                  duplicateGroups     |-> Len(duplicateGroups),
                  totalDuplicates     |-> sumDuplicates(duplicateGroups),
                  totalWastedBytes    |-> sumWasted(scanned.filesByHash, 1)]
    IN [state |-> scanned,
        results |-> IF scanned.thrown THEN Null
                    ELSE Some([stats |-> stats, duplicateGroups |-> duplicateGroups])]

\* the fields of the current scanner
thisFields ==
    [filesByHash |-> filesByHash, processedFiles |-> processedFiles,
     totalFiles |-> totalFiles]

------------------------------------------------------------------------------
(* Standard output *)

\* what analyze writes to standard output: the line naming the directory,
\* with verbose the progress line of processFile at every hundredth file, and
\* with verbose the count of processed files after the walk
analyzeStdout(before, scanned, o, directory) ==
    <<  <<"scanning", directory>>  >>
    \o (IF o.verbose
        THEN [n \in 1..(scanned.processedFiles \div 100 - before.processedFiles \div 100) |->
                 <<"progress", (before.processedFiles \div 100 + n) * 100>>]
        ELSE <<>>)
    \o (IF o.verbose THEN <<  <<"processed", scanned.processedFiles>>  >> ELSE <<>>)

Kilo == 1024
SizeUnits == <<"Bytes", "KB", "MB", "GB">>

\* A byte count is held as its base-1024 digits, least significant first
\* and without leading zeros (0 is the empty sequence): a JavaScript number
\* holds integers wider than the integers of the model.
RECURSIVE base1024(_)
base1024(n) == IF n = 0 THEN <<>> ELSE <<n % Kilo>> \o base1024(n \div Kilo)

RECURSIVE number(_)
number(digits) == IF digits = <<>> THEN 0 ELSE digits[1] + Kilo * number(Tail(digits))

\* digits * m + carry, for a small m
RECURSIVE times(_, _, _)
times(digits, m, carry) ==
    IF digits = <<>> THEN base1024(carry)
    ELSE LET x == digits[1] * m + carry
         IN <<x % Kilo>> \o times(Tail(digits), m, x \div Kilo)

\* digits + v * 1024^pos, for a small v
RECURSIVE plusAt(_, _, _)
plusAt(digits, pos, v) ==
    IF v = 0 THEN digits
    ELSE IF digits = <<>>
         THEN IF pos = 0 THEN base1024(v) ELSE <<0>> \o plusAt(<<>>, pos - 1, v)
         ELSE IF pos = 0
              THEN LET x == digits[1] + v
                   IN <<x % Kilo>> \o plusAt(Tail(digits), 0, x \div Kilo)
              ELSE <<digits[1]>> \o plusAt(Tail(digits), pos - 1, v)

\* Math.floor(Math.log(bytes) / Math.log(k)) for bytes >= 1, taken as the
\* exact floor of the logarithm
floorLog(bytes) == Len(bytes) - 1

\* formatBytes: the value in hundredths of the unit, as toFixed(2) rounds
\* bytes / 1024^i (half of a hundredth upwards), and the unit sizes[i],
\* undefined beyond the last unit
formatBytes(bytes) ==
    IF bytes = <<>> THEN <<0, Some(SizeUnits[1])>>
    ELSE LET i == floorLog(bytes)
             scaled == times(bytes, 100, 0)
             rounded == IF i = 0 THEN scaled ELSE plusAt(scaled, i - 1, Kilo \div 2)
         IN <<number(SubSeq(rounded, i + 1, Len(rounded))),
              IF i + 1 <= Len(SizeUnits) THEN Some(SizeUnits[i + 1]) ELSE Undefined>>

\* JSON.stringify(results, null, 2): one document; every value of a report is
\* a finite number, a string, an array or an object, so the document holds all
\* of them under their keys
JSONstringify(value) ==
    <<"document", [stats |-> value.stats, duplicateGroups |-> value.duplicateGroups]>>

\* Array.prototype.slice(from, to), indices from 0
slice(a, from, to) == SubSeq(a, from + 1, IF to < Len(a) THEN to ELSE Len(a))

\* how many groups the text report lists
ListedGroups == 20

\* the lines of the listed groups: a heading with the 1-based index, then one
\* line per member file
RECURSIVE groupLines(_, _)
groupLines(gs, index) ==
    IF index >= Len(gs) THEN <<>>
    ELSE LET group == gs[index + 1]
         IN <<  <<"group", index + 1, group.extension, group.count,
                  formatBytes(base1024(group.wastedBytes))>>  >>
            \o [n \in 1..Len(group.files) |-> <<"file", group.files[n]>>]
            \o groupLines(gs, index + 1)

\* printResults listing every group
printResults_listAll(o, res) ==
    IF o.json THEN <<JSONstringify(res)>>
    ELSE <<  <<"rule">>, <<"title">>, <<"rule">>,
             <<"scanned", res.stats.totalFilesScanned>>,
             <<"processed", res.stats.totalFilesProcessed>>,
             <<"unique", res.stats.uniqueFiles>>,
             <<"groups", res.stats.duplicateGroups>>,
             <<"duplicates", res.stats.totalDuplicates>>,
             <<"wasted", formatBytes(base1024(res.stats.totalWastedBytes))>>,
             <<"blank">>  >>
         \o (IF Len(res.duplicateGroups) > 0
             THEN <<  <<"rule">>, <<"duplicates title">>, <<"rule">>  >>
                  \o groupLines(res.duplicateGroups, 0)
                  \o (IF Len(res.duplicateGroups) > ListedGroups
                      THEN <<  <<"more", Len(res.duplicateGroups) - ListedGroups>>  >>
                      ELSE <<>>)
             ELSE <<  <<"none">>  >>)
         \o <<  <<"rule">>  >>

\* printResults: the JSON document alone, or the text report
printResults(o, res) ==
    IF o.json THEN <<JSONstringify(res)>>
    ELSE <<  <<"rule">>, <<"title">>, <<"rule">>,
             <<"scanned", res.stats.totalFilesScanned>>,
             <<"processed", res.stats.totalFilesProcessed>>,
             <<"unique", res.stats.uniqueFiles>>,
             <<"groups", res.stats.duplicateGroups>>,
             <<"duplicates", res.stats.totalDuplicates>>,
             <<"wasted", formatBytes(base1024(res.stats.totalWastedBytes))>>,
             <<"blank">>  >>
         \o (IF Len(res.duplicateGroups) > 0
             THEN <<  <<"rule">>, <<"duplicates title">>, <<"rule">>  >>
                  \o groupLines(slice(res.duplicateGroups, 0, ListedGroups), 0)
                  \o (IF Len(res.duplicateGroups) > ListedGroups
                      THEN <<  <<"more", Len(res.duplicateGroups) - ListedGroups>>  >>
                      ELSE <<>>)
             ELSE <<  <<"none">>  >>)
         \o <<  <<"rule">>  >>

------------------------------------------------------------------------------
(* The command line *)

Dashes == <<"-","-">>
HelpLong == <<"-","-","h","e","l","p">>
HelpShort == <<"-","h">>
Digits == <<"0","1","2","3","4","5","6","7","8","9">>

\* String.prototype.startsWith and substring(from)
startsWith(s, p) == Len(s) >= Len(p) /\ SubSeq(s, 1, Len(p)) = p
substring(s, from) == SubSeq(s, from + 1, Len(s))

\* String.prototype.split(sep) for a one-character separator
RECURSIVE split(_, _)
split(s, sep) ==
    LET at == {i \in 1..Len(s) : s[i] = sep}
    IN IF at = {} THEN <<s>>
       ELSE LET i == CHOOSE k \in at : \A j \in at : k <= j
            IN <<SubSeq(s, 1, i - 1)>> \o split(SubSeq(s, i + 1, Len(s)), sep)

isDigit(ch) == \E d \in 1..Len(Digits) : Digits[d] = ch
digitValue(ch) == (CHOOSE d \in 1..Len(Digits) : Digits[d] = ch) - 1

RECURSIVE digitsValue(_, _)
digitsValue(s, acc) ==
    IF s = <<>> \/ ~isDigit(s[1]) THEN acc
    ELSE digitsValue(Tail(s), acc * 10 + digitValue(s[1]))

\* parseInt(value) for a value without leading blanks or a 0x prefix: the
\* number its sign and leading decimal digits spell, NaN (here <<>>) when it
\* starts with no digit or is undefined
NaN == <<>>
parseInt(value) ==
    IF value = Undefined THEN NaN
    ELSE LET text == value[1]
             signed == text # <<>> /\ text[1] \in {"-", "+"}
             body == IF signed THEN Tail(text) ELSE text
         IN IF body = <<>> \/ ~isDigit(body[1]) THEN NaN
            ELSE Some((IF signed /\ text[1] = "-" THEN -1 ELSE 1) * digitsValue(body, 0))

\* the patterns main excludes when no --exclude option was given
MainDefaultExcludes ==
    << <<"n","o","d","e","_","m","o","d","u","l","e","s">>,
       <<".","g","i","t">>,
       <<"d","i","s","t">>,
       <<"b","u","i","l","d">>,
       <<".","n","e","x","t">>,
       <<"c","o","v","e","r","a","g","e">> >>

\* the text a pattern is matched as: includes() and + turn undefined into
\* the word undefined
patternText(value) ==
    IF value = Undefined THEN <<"u","n","d","e","f","i","n","e","d">> ELSE value[1]

\* the body of args.forEach: an argument starting with -- is split at = into
\* key and value and sets its option; any other argument and any other key
\* is passed over
parseOption(o, arg) ==
    IF ~startsWith(arg, Dashes) THEN o
    ELSE LET parts == split(substring(arg, 2), "=")
             key == parts[1]
             value == IF Len(parts) >= 2 THEN Some(parts[2]) ELSE Undefined
         IN CASE key = <<"m","i","n","-","s","i","z","e">> ->
                   [o EXCEPT !.minSize = Some(IF parseInt(value) = NaN \/ parseInt(value) = Some(0)
                                               THEN DefaultMinSize ELSE parseInt(value)[1])]
              [] key = <<"e","x","c","l","u","d","e">> ->
                   [o EXCEPT !.exclude = Some((IF @ = Undefined THEN <<>> ELSE @[1])
                                               \o <<patternText(value)>>)]
              [] key = <<"j","s","o","n">> -> [o EXCEPT !.json = Some(TRUE)]
              [] key = <<"v","e","r","b","o","s","e">> -> [o EXCEPT !.verbose = Some(TRUE)]
              [] OTHER -> o

\* const options = {}
NoOptions == [minSize |-> Undefined, exclude |-> Undefined, verbose |-> Undefined,
              json |-> Undefined, extensions |-> Undefined]

RECURSIVE parseOptions(_, _)
parseOptions(o, args) ==
    IF args = <<>> THEN o ELSE parseOptions(parseOption(o, args[1]), Tail(args))

\* main adding its default patterns to the given ones
mainOptions_defaultsKept(args) ==
    LET o == parseOptions(NoOptions, args)
    IN [o EXCEPT !.exclude = Some((IF @ = Undefined THEN <<>> ELSE @[1])
                                   \o MainDefaultExcludes)]

\* the options object main hands to the constructor
mainOptions(args) ==
    LET o == parseOptions(NoOptions, args)
    IN IF o.exclude = Undefined THEN [o EXCEPT !.exclude = Some(MainDefaultExcludes)] ELSE o

\* the test that sends main to the usage text
wantsHelp(args) == args = <<>> \/ args[1] = HelpLong \/ args[1] = HelpShort

\* the first argument taken as the directory whatever it is
directoryOf_firstArgument(args) == args[1]

\* const directory
directoryOf(args) == IF startsWith(args[1], Dashes) THEN <<".">> ELSE args[1]

\* process.cwd() of the run, and path.resolve(directory) for "." and for a
\* relative name
Cwd == RootDir
resolve(directory) == IF directory = <<".">> THEN Cwd ELSE join(Cwd, directory)

\* the arguments a run can be given
ArgTokens ==
    { <<".">>, <<"x">>, HelpLong, HelpShort,
      <<"-","-","j","s","o","n">>,
      <<"-","-","v","e","r","b","o","s","e">>,
      <<"-","-","m","i","n","-","s","i","z","e","=","0">>,
      <<"-","-","m","i","n","-","s","i","z","e","=","5","0">>,
      <<"-","-","m","i","n","-","s","i","z","e","=","a","b","c">>,
      <<"-","-","e","x","c","l","u","d","e","=","a">>,
      <<"-","-","e","x","c","l","u","d","e","=","b">> }

\* arguments on one command line
MaxArgs == 2

ArgChoices == UNION {[1..n -> ArgTokens] : n \in 0..MaxArgs}

\* the trees of the command-line runs: four .png files, their contents all
\* equal, or equal in the subdirectory only, or equal and small in the root
CliContents ==
    LET big(d) == [size |-> DefaultMinSize, data |-> d]
        small == [size |-> DefaultMinSize \div 2, data |-> 0]
    IN { [k \in Files |-> big(0)],
         [k \in Files |-> IF k = 1 THEN big(0) ELSE IF k = 3 THEN small ELSE big(1)],
         [k \in Files |-> IF k = 4 THEN big(0) ELSE small] }

CliEntries ==
    [k \in Files |-> [name |-> (IF k = 2 THEN <<"b",".","P","N","G">>
                                ELSE <<LowerCase[k]>> \o Png),
                      kind |-> "file"]]

CliTrees ==
    {Tree(CliEntries, contents, faults) :
        contents \in CliContents,
        faults \in FaultChoices({join(DirOf(k), CliEntries[k].name) : k \in Files})}

\* groups in a report handed to printResults
MaxGroups == 21

\* a report of groups duplicate groups of two files each, the first big of
\* them larger than the rest
ReportOf(groups, big) ==
    LET sizeOf(n) == IF n <= big THEN 2 * Kilo ELSE DefaultMinSize
        gs == [n \in 1..groups |->
                 [hash        |-> <<"md5", sizeOf(n), n>>,
                  count       |-> 2,
                  fileSize    |-> sizeOf(n),
                  wastedBytes |-> sizeOf(n),
                  extension   |-> Png,
                  files       |-> << <<LowerCase[n]>> \o Png,
                                     join(<<"x">>, <<LowerCase[n]>> \o Png) >>]]
    IN [stats |-> [totalFilesScanned   |-> 2 * groups,
                   totalFilesProcessed |-> 2 * groups,
                   uniqueFiles         |-> groups,
                   duplicateGroups     |-> groups,
                   totalDuplicates     |-> groups,
                   totalWastedBytes    |-> big * 2 * Kilo + (groups - big) * DefaultMinSize],
        duplicateGroups |-> gs]

ReportChoices ==
    UNION {{ReportOf(groups, big) : big \in {b \in 0..2 : b <= groups}} :
             groups \in 0..MaxGroups}

------------------------------------------------------------------------------
(* The state machine *)

\* no renderer is running, no scanner is running, no function is called on
\* its own
AppOff ==
    /\ currentDirectory = <<>>
    /\ files = <<>>
    /\ openFile = <<>>
    /\ toast = <<>>
    /\ pending = <<>>
    /\ timers = <<>>
    /\ loads = <<>>
    /\ lastStep = <<>>
    /\ clicks = 0

ScanOff ==
    /\ argOptions = <<>>
    /\ scanner = 0
    /\ options = <<>>
    /\ filesByHash = <<>>
    /\ processedFiles = 0
    /\ totalFiles = 0
    /\ calls = <<>>
    /\ argv = <<>>
    /\ results = <<>>
    /\ stdout = <<>>
    /\ exitCode = <<>>

FnOff == callArgs = <<>> /\ returned = <<>>

Init ==
    /\ AppOff /\ FnOff
    /\ fs \in Trees
    /\ argOptions \in OptionChoices
    /\ scanner = 0
    /\ options = <<>>
    /\ filesByHash = <<>>
    /\ processedFiles = 0
    /\ totalFiles = 0
    /\ calls = <<>>
    /\ argv = <<>>
    /\ results = Null
    /\ stdout = <<>>
    /\ exitCode = Undefined

\* a constructor that leaves the hash index and the counters as they are
Construct_keepingFields ==
    /\ Len(calls) < MaxCalls
    /\ scanner = 0 \/ (calls # <<>> /\ calls[Len(calls)].scanner = scanner)
    /\ scanner' = scanner + 1
    /\ options' = constructorOptions(argOptions)
    /\ UNCHANGED <<fs, argOptions, calls, filesByHash, processedFiles, totalFiles>>
    /\ UNCHANGED <<argv, results, stdout, exitCode>>
    /\ UNCHANGED <<appVars, fnVars>>

\* new AssetAudit(options): a caller builds a scanner once the previous one,
\* if any, has been used
Construct ==
    /\ Len(calls) < MaxCalls
    /\ scanner = 0 \/ (calls # <<>> /\ calls[Len(calls)].scanner = scanner)
    /\ scanner' = scanner + 1
    /\ options' = constructorOptions(argOptions)
    /\ filesByHash' = <<>>
    /\ processedFiles' = 0
    /\ totalFiles' = 0
    /\ UNCHANGED <<fs, argOptions, calls, argv, results, stdout, exitCode>>
    /\ UNCHANGED <<appVars, fnVars>>

\* an analyze that truncates the files it fails to read
Analyze_truncatingUnreadable ==
    /\ scanner > 0
    /\ Len(calls) < MaxCalls
    /\ \E r \in {analyze([filesByHash |-> filesByHash,
                          processedFiles |-> processedFiles,
                          totalFiles |-> totalFiles,
                          log |-> NoLog, thrown |-> FALSE], fs, options, RootDir)} :
          /\ filesByHash' = r.state.filesByHash
          /\ processedFiles' = r.state.processedFiles
          /\ totalFiles' = r.state.totalFiles
          /\ stdout' = stdout \o analyzeStdout(thisFields, r.state, options, RootDir)
          /\ fs' = [fs EXCEPT !.content =
                       [p \in DOMAIN fs.content |->
                           IF p \in r.state.log.read /\ <<"read", p>> \in fs.faults
                           THEN [size |-> 0, data |-> 0] ELSE fs.content[p]]]
          /\ calls' = Append(calls, [scanner     |-> scanner,
                                     options     |-> options,
                                     directory   |-> RootDir,
                                     before      |-> thisFields,
                                     results     |-> r.results,
                                     filesByHash |-> r.state.filesByHash,
                                     log         |-> r.state.log])
    /\ UNCHANGED <<argOptions, scanner, options, argv, results, exitCode>>
    /\ UNCHANGED <<appVars, fnVars>>

\* scanner.analyze(directory) on the current scanner, for the scan root
Analyze ==
    /\ scanner > 0
    /\ Len(calls) < MaxCalls
    /\ \E r \in {analyze([filesByHash |-> filesByHash,
                          processedFiles |-> processedFiles,
                          totalFiles |-> totalFiles,
                          log |-> NoLog, thrown |-> FALSE], fs, options, RootDir)} :
          /\ filesByHash' = r.state.filesByHash
          /\ processedFiles' = r.state.processedFiles
          /\ totalFiles' = r.state.totalFiles
          /\ stdout' = stdout \o analyzeStdout(thisFields, r.state, options, RootDir)
          /\ calls' = Append(calls, [scanner     |-> scanner,
                                     options     |-> options,
                                     directory   |-> RootDir,
                                     before      |-> thisFields,
                                     results     |-> r.results,
                                     filesByHash |-> r.state.filesByHash,
                                     log         |-> r.state.log])
    /\ UNCHANGED <<fs, argOptions, scanner, options, argv, results, exitCode>>
    /\ UNCHANGED <<appVars, fnVars>>

Next == Construct \/ Analyze

Spec == Init /\ [][Next]_vars

\* a command-line run: node asset-audit.js argv, in the directory Cwd
CliInit ==
    /\ AppOff /\ FnOff
    /\ fs \in CliTrees
    /\ argv \in ArgChoices
    /\ argOptions = NoOptions
    /\ scanner = 0
    /\ options = <<>>
    /\ filesByHash = <<>>
    /\ processedFiles = 0
    /\ totalFiles = 0
    /\ calls = <<>>
    /\ results = Null
    /\ stdout = <<>>
    /\ exitCode = Undefined

\* main: the usage text and exit 0, or the options, a scanner, its analyze
\* and its printResults; an exception leaving analyze would end the process
\* with status 1 before anything is printed
Main ==
    /\ exitCode = Undefined
    /\ scanner = 0
    /\ IF wantsHelp(argv)
       THEN /\ stdout' = Append(stdout, <<"usage">>)
            /\ exitCode' = Some(0)
            /\ UNCHANGED <<argOptions, scanner, options, filesByHash, processedFiles,
                           totalFiles, calls, results>>
       ELSE \E o \in {mainOptions(argv)} :
            \E directory \in {resolve(directoryOf(argv))} :
            \E r \in {analyze([filesByHash |-> <<>>, processedFiles |-> 0,
                               totalFiles |-> 0, log |-> NoLog, thrown |-> FALSE],
                              fs, constructorOptions(o), directory)} :
              /\ argOptions' = o
              /\ scanner' = scanner + 1
              /\ options' = constructorOptions(o)
              /\ filesByHash' = r.state.filesByHash
              /\ processedFiles' = r.state.processedFiles
              /\ totalFiles' = r.state.totalFiles
              /\ calls' = Append(calls, [scanner     |-> scanner + 1,
                                         options     |-> constructorOptions(o),
                                         directory   |-> directory,
                                         before      |-> [filesByHash |-> <<>>,
                                                          processedFiles |-> 0,
                                                          totalFiles |-> 0],
                                         results     |-> r.results,
                                         filesByHash |-> r.state.filesByHash,
                                         log         |-> r.state.log])
              /\ results' = r.results
              /\ stdout' = stdout
                           \o analyzeStdout([processedFiles |-> 0], r.state,
                                            constructorOptions(o), directory)
                           \o (IF r.results = Null THEN <<>>
                               ELSE printResults(constructorOptions(o), r.results[1]))
              /\ exitCode' = IF r.results = Null THEN Some(1) ELSE Some(0)
    /\ UNCHANGED <<fs, argv>>
    /\ UNCHANGED <<appVars, fnVars>>

CliNext == Main

CliSpec == CliInit /\ [][CliNext]_vars

\* a scanner about to print a report
PrintInit ==
    /\ AppOff /\ FnOff
    /\ fs \in {Tree(CliEntries, contents, {}) : contents \in CliContents}
    /\ argv = <<>>
    /\ argOptions \in {[NoOptions EXCEPT !.json = j] : j \in {Undefined, Some(TRUE)}}
    /\ scanner = 1
    /\ options = constructorOptions(argOptions)
    /\ filesByHash = <<>>
    /\ processedFiles = 0
    /\ totalFiles = 0
    /\ calls = <<>>
    /\ results \in {Some(r) : r \in ReportChoices}
    /\ stdout = <<>>
    /\ exitCode = Undefined

\* scanner.printResults(results)
PrintResults ==
    /\ scanner > 0
    /\ results # Null
    /\ stdout = <<>>
    /\ stdout' = stdout \o printResults(options, results[1])
    /\ UNCHANGED <<fs, argOptions, scanner, options, filesByHash, processedFiles,
                   totalFiles, calls, argv, results, exitCode>>
    /\ UNCHANGED <<appVars, fnVars>>

PrintNext == PrintResults

PrintSpec == PrintInit /\ [][PrintNext]_vars

------------------------------------------------------------------------------
(* What the properties speak of *)

Rel(p) == relative(RootDir, p)
CallIds == 1..Len(calls)
Report(c) == c.results[1]
Groups(c) == {Report(c).duplicateGroups[n] : n \in 1..Len(Report(c).duplicateGroups)}
Members(g) == {g.files[n] : n \in 1..Len(g.files)}
Records(c) ==
    UNION {{c.filesByHash[n].files[k] : k \in 1..Len(c.filesByHash[n].files)} :
            n \in 1..Len(c.filesByHash)}

\* the first analyze call made on its scanner object
FirstOnScanner(i) == \A j \in 1..(i - 1) : calls[j].scanner # calls[i].scanner

\* the files of the tree and the files a call hashed successfully
FilePaths == DOMAIN fs.content
Hashed(c) == {p \in c.log.read : <<"read", p>> \notin fs.faults}

\* the relative path contains one of the patterns as a substring
ContainsPattern(rel, patterns) ==
    \E n \in 1..Len(patterns) : includes(rel, patterns[n])

\* the files a directory lists after the file p, in listing order
LaterSiblings(p) ==
    UNION {{join(d, fs.listing[d][n].name) :
              n \in {m \in 1..Len(fs.listing[d]) :
                       \E k \in 1..(m - 1) : join(d, fs.listing[d][k].name) = p}} :
            d \in Dirs}

------------------------------------------------------------------------------
(* C1 *)

\* C1, as stated: in every report of analyze, two successfully hashed files
\* share a duplicate group exactly when their contents are identical, and a
\* hashed file whose content no other hashed file has is in no group
C1_GroupsAreContentClasses ==
    \A i \in CallIds :
        LET c == calls[i]
        IN c.results # Null =>
            /\ \A p, q \in Hashed(c) : p # q =>
                 ((\E g \in Groups(c) : Rel(p) \in Members(g) /\ Rel(q) \in Members(g))
                    <=> fs.content[p] = fs.content[q])
            /\ \A p \in Hashed(c) :
                 (\A q \in Hashed(c) \ {p} : fs.content[q] # fs.content[p])
                    => \A g \in Groups(c) : Rel(p) \notin Members(g)

\* the same statement for the first analyze call of a scanner, which is
\* where it holds
C1_OnFreshScanner ==
    \A i \in CallIds :
        LET c == calls[i]
        IN (c.results # Null /\ FirstOnScanner(i)) =>
            /\ \A p, q \in Hashed(c) : p # q =>
                 ((\E g \in Groups(c) : Rel(p) \in Members(g) /\ Rel(q) \in Members(g))
                    <=> fs.content[p] = fs.content[q])
            /\ \A p \in Hashed(c) :
                 (\A q \in Hashed(c) \ {p} : fs.content[q] # fs.content[p])
                    => \A g \in Groups(c) : Rel(p) \notin Members(g)

------------------------------------------------------------------------------
(* C2 *)

\* every path of the tree: the subdirectory and the files
TreePaths == {SubDir} \cup FilePaths

\* C2: an entry whose path relative to the root contains an exclude pattern
\* is never counted, stat-ed, read or listed, has no record and is in no
\* group, and the counters of the report count only the entries the walk
\* counted and processed
C2_ExcludedNeverScanned ==
    \A i \in CallIds :
        LET c == calls[i]
        IN /\ \A p \in TreePaths :
                ContainsPattern(Rel(p), c.options.excludePatterns) =>
                    /\ p \notin c.log.readdir
                    /\ p \notin c.log.counted
                    /\ p \notin c.log.stat
                    /\ p \notin c.log.processed
                    /\ p \notin c.log.read
                    /\ \A r \in Records(c) : r.path # p
                    /\ c.results # Null =>
                         \A g \in Groups(c) : Rel(p) \notin Members(g)
           /\ c.results # Null =>
                /\ Report(c).stats.totalFilesScanned
                     = c.before.totalFiles + Cardinality(c.log.counted)
                /\ Report(c).stats.totalFilesProcessed
                     = c.before.processedFiles + Cardinality(c.log.processed)

\* C2's case: a call met an excluded directory that holds a file of an
\* allowed extension and sufficient size, and an excluded file of that kind
C2_Witness ==
    \E i \in CallIds :
        LET c == calls[i]
        IN /\ SubDir \in c.log.visited
           /\ ContainsPattern(Rel(SubDir), c.options.excludePatterns)
           /\ \E p \in FilePaths :
                /\ includes(p, SubDir)
                /\ fs.content[p].size >= c.options.minSize
           /\ \E q \in c.log.visited :
                /\ q \in FilePaths
                /\ ContainsPattern(Rel(q), c.options.excludePatterns)
                /\ fs.content[q].size >= c.options.minSize

------------------------------------------------------------------------------
(* C3 *)

\* C3: a file the walk reaches that is not excluded, is a regular file of
\* an allowed extension and can be stat-ed is counted as scanned; below
\* minSize it is not processed, not read and gets no record, and at
\* minSize or above it is processed; totalFilesScanned and
\* totalFilesProcessed grow by the files counted and processed
C3_MinSizeThreshold ==
    \A i \in CallIds :
        LET c == calls[i]
        IN
        /\ c.results # Null =>
             /\ Report(c).stats.totalFilesScanned
                  = c.before.totalFiles + Cardinality(c.log.counted)
             /\ Report(c).stats.totalFilesProcessed
                  = c.before.processedFiles + Cardinality(c.log.processed)
        /\ \A d \in Dirs : \A n \in 1..Len(fs.listing[d]) :
             LET e == fs.listing[d][n]
                 p == join(d, e.name)
             IN (/\ p \in c.log.visited
                 /\ e.kind = "file"
                 /\ ~ContainsPattern(Rel(p), c.options.excludePatterns)
                 /\ toLowerCase(extname(e.name)) \in
                        {c.options.extensions[k] : k \in 1..Len(c.options.extensions)}
                 /\ <<"stat", p>> \notin fs.faults)
                =>
                /\ p \in c.log.counted
                /\ fs.content[p].size < c.options.minSize =>
                     /\ p \notin c.log.processed
                     /\ p \notin c.log.read
                     /\ \A r \in Records(c) : r.path # p
                /\ fs.content[p].size >= c.options.minSize =>
                     p \in c.log.processed

\* C3's case: one call met a file below minSize and a file of exactly minSize
C3_Witness ==
    \E i \in CallIds :
        LET c == calls[i]
        IN /\ \E p \in c.log.counted : fs.content[p].size < c.options.minSize
           /\ \E p \in c.log.processed : fs.content[p].size = c.options.minSize

------------------------------------------------------------------------------
(* C4 *)

\* the file of the tree with this relative path
FileAt(rel) == CHOOSE p \in FilePaths : Rel(p) = rel

\* C4: every duplicate group has at least two members, all of the group's
\* fileSize, and wastes fileSize * (count - 1) bytes
C4_GroupWaste ==
    \A i \in CallIds :
        LET c == calls[i]
        IN c.results # Null =>
            \A g \in Groups(c) :
                /\ g.count >= 2
                /\ g.count = Len(g.files)
                /\ \A m \in Members(g) : fs.content[FileAt(m)].size = g.fileSize
                /\ g.wastedBytes = g.fileSize * (g.count - 1)

\* C4's case: a report with a group of more than two members
C4_Witness ==
    \E i \in CallIds :
        /\ calls[i].results # Null
        /\ \E g \in Groups(calls[i]) : g.count > 2 /\ g.fileSize > 0

------------------------------------------------------------------------------
(* C5 *)

RECURSIVE SumOfWasted(_)
SumOfWasted(gs) ==
    IF gs = <<>> THEN 0 ELSE gs[1].wastedBytes + SumOfWasted(Tail(gs))

\* C5: the report's totalWastedBytes is the sum of its groups' wastedBytes
C5_TotalIsSumOfGroups ==
    \A i \in CallIds :
        calls[i].results # Null =>
            Report(calls[i]).stats.totalWastedBytes
                = SumOfWasted(Report(calls[i]).duplicateGroups)

\* C5's case: a report with two groups of different waste
C5_Witness ==
    \E i \in CallIds :
        /\ calls[i].results # Null
        /\ \E g, h \in Groups(calls[i]) : g.wastedBytes # h.wastedBytes

------------------------------------------------------------------------------
(* C6 *)

------------------------------------------------------------------------------
(* C7 *)

\* C7, as stated: every analyze call starts from an empty hash index and
\* zero counters, and a later call on the same scanner returns the report
\* of the earlier one
C7_AnalyzeStartsFresh ==
    \A j \in CallIds :
        /\ calls[j].before = [filesByHash |-> <<>>, processedFiles |-> 0,
                              totalFiles |-> 0]
        /\ \A i \in 1..(j - 1) :
             calls[i].scanner = calls[j].scanner
                => calls[i].results = calls[j].results

------------------------------------------------------------------------------
(* C8 *)

\* the tree with directory d readable and empty
Emptied(w, d) ==
    [w EXCEPT !.listing[d] = <<>>, !.faults = @ \ {<<"readdir", d>>}]

\* the entry listed right after p in p's directory, if any
NextSibling(p) ==
    UNION {{join(d, fs.listing[d][n].name) :
              n \in {m \in 2..Len(fs.listing[d]) :
                       join(d, fs.listing[d][m - 1].name) = p}} :
            d \in Dirs}

\* the entries of the directories that can be listed and are reached from
\* the root through directories that are not excluded
ReadableEntries(o) ==
    LET entriesOf(d) == {join(d, fs.listing[d][n].name) : n \in 1..Len(fs.listing[d])}
        readable(d) == <<"readdir", d>> \notin fs.faults
    IN IF ~readable(RootDir) THEN {}
       ELSE entriesOf(RootDir) \cup
            (IF readable(SubDir) /\ ~ContainsPattern(Rel(SubDir), o.excludePatterns)
             THEN entriesOf(SubDir) ELSE {})

\* C8: when the listing of a directory fails, analyze still returns a
\* report, the scan has the outcome it would have were that directory
\* empty, it goes on with the entry after the directory, and, such failures
\* being the only ones, it visits every entry of the readable directories
C8_UnreadableDirectorySkipped ==
    \A i \in CallIds :
        LET c == calls[i]
        IN \A d \in c.log.readdir : <<"readdir", d>> \in fs.faults =>
            /\ c.results # Null
            /\ \A r \in {analyze([filesByHash |-> c.before.filesByHash,
                                  processedFiles |-> c.before.processedFiles,
                                  totalFiles |-> c.before.totalFiles,
                                  log |-> NoLog, thrown |-> FALSE],
                                 Emptied(fs, d), c.options, RootDir)} :
                  /\ r.results = c.results
                  /\ r.state.filesByHash = c.filesByHash
                  /\ r.state.log.visited = c.log.visited
            /\ \A q \in NextSibling(d) : q \in c.log.visited
            /\ (\A f \in fs.faults : f[1] = "readdir")
                  => c.log.visited = ReadableEntries(c.options)

\* C8's case: the listing of the subdirectory failed, and the file listed
\* after it in the root was processed
C8_Witness ==
    \E i \in CallIds :
        LET c == calls[i]
        IN /\ SubDir \in c.log.readdir
           /\ <<"readdir", SubDir>> \in fs.faults
           /\ \E q \in LaterSiblings(SubDir) : q \in c.log.processed
           /\ c.results # Null

------------------------------------------------------------------------------
(* C9 *)

\* C9, as stated: when the stat of a file fails, every later entry of the
\* same directory is still visited
C9_StatFailureSkipsOnlyThatFile ==
    \A i \in CallIds :
        \A p \in calls[i].log.stat : <<"stat", p>> \in fs.faults =>
            \A q \in LaterSiblings(p) : q \in calls[i].log.visited

------------------------------------------------------------------------------
(* C10 *)

\* C10: a file whose read fails has no hash and no record in the index, is
\* in no duplicate group, and the walk goes on with the next entry and
\* ends with a report
C10_ReadFailureOmitsFile ==
    \A i \in CallIds :
        LET c == calls[i]
        IN \A p \in c.log.read : <<"read", p>> \in fs.faults =>
            /\ \A n \in 1..Len(c.filesByHash) : c.filesByHash[n].hash # Null
            /\ \A r \in Records(c) : r.path # p
            /\ c.results # Null
            /\ \A g \in Groups(c) : Rel(p) \notin Members(g)
            /\ \A q \in NextSibling(p) : q \in c.log.visited

\* C10's case: the read of a file failed, another file of the same content
\* was hashed, and the entry after the failing file was processed
C10_Witness ==
    \E i \in CallIds :
        LET c == calls[i]
        IN \E p \in c.log.read :
            /\ <<"read", p>> \in fs.faults
            /\ \E q \in Hashed(c) : fs.content[q] = fs.content[p]
            /\ \E q \in NextSibling(p) : q \in c.log.processed

------------------------------------------------------------------------------
(* C11 *)

\* the run is over
Exited == exitCode # Undefined

\* the command line names a directory first and asks for help nowhere
NamesDirectory == argv # <<>> /\ ~startsWith(argv[1], <<"-">>)
AsksHelp == \E n \in 1..Len(argv) : argv[n] \in {HelpLong, HelpShort}

\* the failing I/O calls of the tree that a call ran into
FaultsMet(c) ==
    {f \in fs.faults : \/ f[1] = "readdir" /\ f[2] \in c.log.readdir
                       \/ f[1] = "stat" /\ f[2] \in c.log.stat
                       \/ f[1] = "read" /\ f[2] \in c.log.read}

\* C11: a command-line run that names a directory and does not ask for help
\* ends with exit status 0, after one analyze call that returned a report
\* (no exception left it) and after printResults printed that report,
\* whatever listing, stat or read fails and also when the directory does
\* not exist.
C11_RunCompletes ==
    (Exited /\ NamesDirectory /\ ~AsksHelp) =>
        /\ exitCode = Some(0)
        /\ Len(calls) = 1
        /\ calls[1].results # Null
        /\ results = calls[1].results
        /\ stdout # <<>>
        /\ stdout[Len(stdout)][1] \in {"rule", "document"}

\* a run over a tree where an I/O call failed, and a run on a directory
\* that does not exist, have ended
C11_Witness ==
    /\ Exited /\ NamesDirectory /\ ~AsksHelp
    /\ calls # <<>>
    /\ \/ FaultsMet(calls[1]) # {}
       \/ calls[1].directory \notin DOMAIN fs.listing

------------------------------------------------------------------------------
(* C12 *)

\* C12: the scan only reads: no step of a scanner (its construction, an
\* analyze call with its listings, stats and reads, failing or not) changes
\* the tree: no file or directory is created, removed, renamed or rewritten,
\* and no content or size changes.
C12_ScanIsReadOnly == [][fs' = fs]_vars

\* an analyze call has listed directories, taken sizes and read files, and
\* has run into a failing call on the way
C12_Witness ==
    /\ calls # <<>>
    /\ calls[1].log.readdir # {} /\ calls[1].log.stat # {} /\ calls[1].log.read # {}
    /\ FaultsMet(calls[1]) # {}

------------------------------------------------------------------------------
(* C13 *)

\* the number of records in all the buckets of a hash index
RECURSIVE CountRecords(_)
CountRecords(m) ==
    IF m = <<>> THEN 0 ELSE Len(m[1].files) + CountRecords(Tail(m))

\* C13: in every report, stats.totalFilesProcessed is the number of files
\* that were hashed, that is the number of records held in all the buckets
\* of the hash index, whether or not a read failed during the run.
C13_ProcessedCountsRecords ==
    \A i \in CallIds :
        calls[i].results # Null =>
            Report(calls[i]).stats.totalFilesProcessed = CountRecords(calls[i].filesByHash)

\* the same equality for the calls that ran into no failing read
C13_WithoutReadFailures ==
    \A i \in CallIds :
        (calls[i].results # Null
         /\ \A j \in 1..i : \A f \in FaultsMet(calls[j]) : f[1] # "read") =>
            Report(calls[i]).stats.totalFilesProcessed = CountRecords(calls[i].filesByHash)

------------------------------------------------------------------------------
(* C14 *)

\* the directory entry of a path of the tree
EntryAt(p) ==
    CHOOSE e \in UNION {{fs.listing[d][n] : n \in 1..Len(fs.listing[d])} : d \in Dirs} :
        \E d \in Dirs : join(d, e.name) = p

\* the regular files that are reached from the root through directories
\* that can be listed and are not excluded, are not excluded themselves,
\* and whose lower-cased extension is on the allow-list, whatever their size
AllowedFiles(o) ==
    {p \in ReadableEntries(o) :
        /\ p \in FilePaths
        /\ EntryAt(p).kind = "file"
        /\ ~ContainsPattern(Rel(p), o.excludePatterns)
        /\ \E n \in 1..Len(o.extensions) : o.extensions[n] = toLowerCase(extname(p))}

\* C14: in every report, stats.totalFilesScanned is the number of regular
\* files reachable from the root through non-excluded paths whose
\* lower-cased extension is on the allow-list, regardless of their size.
C14_ScannedCountsAllowedFiles ==
    \A i \in CallIds :
        calls[i].results # Null =>
            Report(calls[i]).stats.totalFilesScanned
                = Cardinality(AllowedFiles(calls[i].options))

\* the same equality for the first call on a scanner that ran into no
\* failing stat
C14_OnFreshScannerWithoutStatFailure ==
    \A i \in CallIds :
        (calls[i].results # Null /\ FirstOnScanner(i)
         /\ \A f \in FaultsMet(calls[i]) : f[1] # "stat") =>
            /\ calls[i].log.counted = AllowedFiles(calls[i].options)
            /\ Report(calls[i]).stats.totalFilesScanned
                  = Cardinality(AllowedFiles(calls[i].options))

------------------------------------------------------------------------------
(* C15 *)

\* the place of a path in the depth-first walk in listing order: the entries
\* of the subdirectory come between the subdirectory and the root entry
\* listed after it
WalkRank(p) ==
    LET inRoot == {n \in 1..Len(fs.listing[RootDir]) :
                     join(RootDir, fs.listing[RootDir][n].name) = p}
        inSub == {n \in 1..Len(fs.listing[SubDir]) :
                    join(SubDir, fs.listing[SubDir][n].name) = p}
        subAt == CHOOSE n \in 1..Len(fs.listing[RootDir]) :
                    join(RootDir, fs.listing[RootDir][n].name) = SubDir
        width == Len(fs.listing[SubDir]) + 1
    IN IF inRoot # {} THEN width * (CHOOSE n \in inRoot : TRUE)
       ELSE width * subAt + (CHOOSE n \in inSub : TRUE)

\* when the walk first came upon a member of the group
FirstDiscovery(g) ==
    LET ranks == {WalkRank(FileAt(rel)) : rel \in Members(g)}
    IN CHOOSE r \in ranks : \A q \in ranks : r <= q

\* C15: in every report duplicateGroups is ordered by non-increasing
\* wastedBytes, and groups of equal wastedBytes stand in the order in which
\* the depth-first walk discovered their first members.
C15_GroupsOrdered ==
    \A i \in CallIds :
        calls[i].results # Null =>
            LET gs == Report(calls[i]).duplicateGroups
            IN \A m, n \in 1..Len(gs) :
                  m < n =>
                     /\ gs[m].wastedBytes >= gs[n].wastedBytes
                     /\ gs[m].wastedBytes = gs[n].wastedBytes
                           => FirstDiscovery(gs[m]) < FirstDiscovery(gs[n])

\* a report with two groups that waste the same number of bytes
C15_Witness ==
    \E i \in CallIds :
        /\ calls[i].results # Null
        /\ Len(Report(calls[i]).duplicateGroups) = 2
        /\ Report(calls[i]).duplicateGroups[1].wastedBytes
              = Report(calls[i]).duplicateGroups[2].wastedBytes

\* a report whose larger group was discovered after its smaller group
C15_SortMoves ==
    \E i \in CallIds :
        /\ calls[i].results # Null
        /\ Len(Report(calls[i]).duplicateGroups) = 2
        /\ Report(calls[i]).duplicateGroups[1].wastedBytes
              > Report(calls[i]).duplicateGroups[2].wastedBytes
        /\ FirstDiscovery(Report(calls[i]).duplicateGroups[1])
              > FirstDiscovery(Report(calls[i]).duplicateGroups[2])

------------------------------------------------------------------------------
(* C16 *)

JsonFlag == <<"-","-","j","s","o","n">>

\* the run was given --json and went on to scan
JsonRun ==
    /\ Exited
    /\ calls # <<>>
    /\ \E n \in 1..Len(argv) : argv[n] = JsonFlag

\* C16: when --json is given, all that the run writes to standard output is
\* one JSON document with the keys stats and duplicateGroups, and nothing
\* before or after it.
C16_JsonOutputIsOneDocument ==
    JsonRun =>
        /\ Len(stdout) = 1
        /\ stdout[1][1] = "document"
        /\ DOMAIN stdout[1][2] = {"stats", "duplicateGroups"}

\* what does hold: the document is there, once, and it is the last thing
\* written
C16_DocumentIsLast ==
    JsonRun =>
        /\ stdout[Len(stdout)] = JSONstringify(results[1])
        /\ \A n \in 1..(Len(stdout) - 1) : stdout[n][1] # "document"

------------------------------------------------------------------------------
(* C17 *)

\* the lines of standard output of one kind
LinesOf(kind) == LET isKind(line) == line[1] = kind IN SelectSeq(stdout, isKind)

\* the member files of the first n groups, group after group
RECURSIVE FilesOfFirst(_, _)
FilesOfFirst(gs, n) ==
    IF n = 0 THEN <<>> ELSE FilesOfFirst(gs, n - 1) \o gs[n].files

\* printResults has printed a text report
TextPrinted == results # Null /\ stdout # <<>> /\ ~options.json

\* C17: in text mode printResults lists exactly the first min(20, G) groups
\* of duplicateGroups, in order, each with its member files; it prints an
\* "and N more duplicate groups" line exactly when G > 20, with N = G - 20;
\* and it prints the no-duplicates line exactly when G = 0.
C17_TextListsFirstTwenty ==
    TextPrinted =>
        LET gs == results[1].duplicateGroups
            G == Len(gs)
            shown == IF G < 20 THEN G ELSE 20
            headings == LinesOf("group")
        IN /\ Len(headings) = shown
           /\ \A n \in 1..shown :
                 /\ headings[n][2] = n
                 /\ headings[n][3] = gs[n].extension
                 /\ headings[n][4] = gs[n].count
           /\ LinesOf("file") = [n \in 1..Len(FilesOfFirst(gs, shown)) |->
                                    <<"file", FilesOfFirst(gs, shown)[n]>>]
           /\ LinesOf("more") = IF G > 20 THEN <<  <<"more", G - 20>>  >> ELSE <<>>
           /\ LinesOf("none") = IF G = 0 THEN <<  <<"none">>  >> ELSE <<>>

\* a text report of more than twenty groups has been printed
C17_Witness ==
    /\ TextPrinted
    /\ Len(results[1].duplicateGroups) > 20
    /\ Len(LinesOf("more")) = 1

\* text reports of no group and of exactly twenty groups
C17_NoGroups == TextPrinted /\ Len(results[1].duplicateGroups) = 0
C17_TwentyGroups == TextPrinted /\ Len(results[1].duplicateGroups) = 20

------------------------------------------------------------------------------
(* C18 *)

\* the run scanned the current working directory and printed the report
ScannedCwdAndPrinted ==
    /\ Len(calls) = 1
    /\ calls[1].directory = Cwd
    /\ Cwd \in calls[1].log.readdir
    /\ results # Null
    /\ stdout[Len(stdout)][1] \in {"rule", "document"}

\* the run printed the usage text and nothing else, and scanned nothing
OnlyUsagePrinted ==
    /\ stdout = <<  <<"usage">>  >>
    /\ exitCode = Some(0)
    /\ calls = <<>>
    /\ scanner = 0

\* C18 as stated: whenever the directory argument is omitted (no argument at
\* all, or a first argument that begins with --, help requests aside), the
\* current working directory is scanned and a report is printed.
C18_OmittedDirectoryScansCwd ==
    (Exited /\ ~AsksHelp /\ (argv = <<>> \/ startsWith(argv[1], Dashes)))
        => ScannedCwdAndPrinted

\* C18 amended: when the first argument begins with -- and is not --help,
\* the current working directory is scanned and a report is printed; with
\* no argument at all nothing is scanned: the usage text is printed and the
\* process exits with status 0.
C18_Amended ==
    /\ (Exited /\ argv # <<>> /\ startsWith(argv[1], Dashes) /\ argv[1] # HelpLong)
          => ScannedCwdAndPrinted
    /\ (Exited /\ argv = <<>>) => OnlyUsagePrinted

\* a run whose first argument is an option has scanned the current working
\* directory
C18_Witness ==
    /\ Exited
    /\ argv # <<>> /\ startsWith(argv[1], Dashes) /\ argv[1] # HelpLong
    /\ ScannedCwdAndPrinted
    /\ calls[1].log.visited # {}

\* a run without arguments has ended
C18_NoArguments == Exited /\ argv = <<>>

------------------------------------------------------------------------------
(* C19 *)

\* C19: whenever --help or -h is among the arguments, also after a
\* directory argument or after other options, the usage text is printed, the
\* process exits with status 0 and no directory is scanned.
C19_HelpAnywhere ==
    (Exited /\ AsksHelp) => OnlyUsagePrinted

\* what does hold: --help or -h as the first argument
C19_HelpFirst ==
    (Exited /\ argv # <<>> /\ argv[1] \in {HelpLong, HelpShort}) => OnlyUsagePrinted

------------------------------------------------------------------------------
(* C20 *)

MinSizePrefix == <<"-","-","m","i","n","-","s","i","z","e","=">>

\* the values given as --min-size=value, in the order of the command line
MinSizeValues ==
    LET isMinSize(arg) == startsWith(arg, MinSizePrefix)
        given == SelectSeq(argv, isMinSize)
    IN [n \in 1..Len(given) |-> substring(given[n], Len(MinSizePrefix))]

\* the text is the decimal numeral of a non-negative integer
IsNumeral(text) == text # <<>> /\ \A n \in 1..Len(text) : isDigit(text[n])

\* C20: the scan's threshold is n when --min-size=n is given for a
\* non-negative integer n, 0 included, and the default 100 when the option
\* is absent or its value is not numeric; the run is not aborted.
C20_MinSizeAsGiven ==
    (Exited /\ calls # <<>>) =>
        /\ exitCode = Some(0)
        /\ calls[1].options.minSize =
              IF MinSizeValues # <<>> /\ IsNumeral(MinSizeValues[Len(MinSizeValues)])
              THEN digitsValue(MinSizeValues[Len(MinSizeValues)], 0)
              ELSE 100

\* what does hold: a positive n is taken, and 0 counts as no value
C20_PositiveOrDefault ==
    (Exited /\ calls # <<>>) =>
        /\ exitCode = Some(0)
        /\ calls[1].options.minSize =
              IF /\ MinSizeValues # <<>>
                 /\ IsNumeral(MinSizeValues[Len(MinSizeValues)])
                 /\ digitsValue(MinSizeValues[Len(MinSizeValues)], 0) > 0
              THEN digitsValue(MinSizeValues[Len(MinSizeValues)], 0)
              ELSE 100

------------------------------------------------------------------------------
(* C22 *)

ExcludePrefix == <<"-","-","e","x","c","l","u","d","e","=">>

\* the patterns given as --exclude=pattern, in the order of the command line
GivenExcludes ==
    LET isExclude(arg) == startsWith(arg, ExcludePrefix)
        given == SelectSeq(argv, isExclude)
    IN [n \in 1..Len(given) |-> substring(given[n], Len(ExcludePrefix))]

\* C22: when one or more --exclude options are given, the patterns the scan
\* excludes are exactly the given ones and the default patterns
\* (node_modules, .git, dist, build, .next, coverage) do not apply; the
\* defaults are used only when no --exclude option is given.
C22_GivenExcludesReplaceDefaults ==
    (Exited /\ calls # <<>>) =>
        LET used == calls[1].options.excludePatterns
        IN /\ GivenExcludes # <<>> => used = GivenExcludes
           /\ GivenExcludes = <<>> =>
                 used = << <<"n","o","d","e","_","m","o","d","u","l","e","s">>,
                           <<".","g","i","t">>, <<"d","i","s","t">>,
                           <<"b","u","i","l","d">>, <<".","n","e","x","t">>,
                           <<"c","o","v","e","r","a","g","e">> >>
           /\ \A p \in calls[1].log.visited :
                 ~ContainsPattern(relative(calls[1].directory, p), used)
                    => (p = SubDir => SubDir \in calls[1].log.readdir)

\* a run with two --exclude options has walked the directory dist, which
\* the defaults exclude
C22_Witness ==
    /\ Exited /\ calls # <<>>
    /\ Len(GivenExcludes) = 2
    /\ SubDir \in calls[1].log.readdir
    /\ \E p \in calls[1].log.read : includes(p, SubName)

------------------------------------------------------------------------------
(* formatBytes called on its own *)

\* base-1024 digits of a byte count
MaxDigits == 5

\* the byte counts: every digit 0, 1, 512 or 1023, the leading one not 0
ByteCounts ==
    UNION {{d \in [1..n -> {0, 1, Kilo \div 2, Kilo - 1}] : n > 0 => d[n] # 0} :
             n \in 0..MaxDigits}

FormatInit ==
    /\ fs = <<>>
    /\ ScanOff /\ AppOff
    /\ callArgs \in {<<bytes>> : bytes \in ByteCounts}
    /\ returned = Undefined

\* scanner.formatBytes(bytes)
FormatBytes ==
    /\ returned = Undefined
    /\ returned' = Some(formatBytes(callArgs[1]))
    /\ UNCHANGED <<fs, scanVars, appVars, callArgs>>

FormatNext == FormatBytes

FormatSpec == FormatInit /\ [][FormatNext]_vars

------------------------------------------------------------------------------
(* C29 *)

\* C29: for every non-negative integer byte count, formatBytes takes the
\* unit with index floor(log1024(bytes)), that unit is one of Bytes, KB, MB
\* and GB, and the count 0 is rendered as 0 Bytes.
C29_UnitIsOneOfFour ==
    returned # Undefined =>
        LET bytes == callArgs[1]
            formatted == returned[1]
        IN /\ bytes = <<>> => formatted = <<0, Some("Bytes")>>
           /\ bytes # <<>> =>
                 /\ formatted[2] # Undefined
                 /\ formatted[2][1] \in {"Bytes", "KB", "MB", "GB"}
                 /\ formatted[2][1] = <<"Bytes", "KB", "MB", "GB">>[Len(bytes)]

\* what does hold: the same for the counts below 1024^4
C29_BelowOneTerabyte ==
    (returned # Undefined /\ Len(callArgs[1]) <= 4) =>
        LET bytes == callArgs[1]
            formatted == returned[1]
        IN /\ bytes = <<>> => formatted = <<0, Some("Bytes")>>
           /\ bytes # <<>> =>
                 /\ formatted[2] # Undefined
                 /\ formatted[2][1] = <<"Bytes", "KB", "MB", "GB">>[Len(bytes)]

------------------------------------------------------------------------------
(* getRotationFromPath *)

\* String.prototype.charCodeAt for the characters of the model's paths
charCodeAt(ch) ==
    IF \E k \in 1..Len(LowerCase) : LowerCase[k] = ch
    THEN 96 + CHOOSE k \in 1..Len(LowerCase) : LowerCase[k] = ch
    ELSE IF \E k \in 1..Len(UpperCase) : UpperCase[k] = ch
    THEN 64 + CHOOSE k \in 1..Len(UpperCase) : UpperCase[k] = ch
    ELSE IF isDigit(ch) THEN 48 + digitValue(ch)
    ELSE CASE ch = "/" -> 47 [] ch = "." -> 46 [] ch = ":" -> 58
           [] ch = "\\" -> 92 [] ch = "-" -> 45 [] ch = "_" -> 95

\* A 32-bit integer is held as its two 16-bit halves <<high, low>>, the
\* unsigned value being high * 65536 + low.
Half == 65536

\* hash = ((hash << 5) - hash) + code; hash |= 0: 31 * hash + code modulo 2^32
hashStep(hash, code) ==
    LET low == hash[2] * 31 + code
    IN <<(hash[1] * 31 + low \div Half) % Half, low % Half>>

\* the signed value of a 32-bit integer
toInt32(hash) ==
    IF hash[1] >= Half \div 2 THEN (hash[1] - Half) * Half + hash[2]
    ELSE hash[1] * Half + hash[2]

\* the for loop over the characters of the path
RECURSIVE hashOfPath(_, _)
hashOfPath(path, hash) ==
    IF path = <<>> THEN hash
    ELSE hashOfPath(Tail(path), hashStep(hash, charCodeAt(path[1])))

\* a % b of JavaScript for b > 0: the remainder has the sign of a
remainder(a, b) ==
    LET r == a % b IN IF a < 0 /\ r # 0 THEN r - b ELSE r

\* hash % 1000
hashMod(hash) == remainder(toInt32(hash), 1000)

\* getRotationFromPath for a range of range.num / range.den: the value
\* ((hash % 1000) / 1000) * range - range / 2 as the fraction num / den
getRotationFromPath(path, range) ==
    LET hash == hashOfPath(path, <<0, 0>>)
    IN [num |-> (2 * hashMod(hash) - 1000) * range.num,
        den |-> 2000 * range.den]

\* characters in a path
MaxPathLen == 6

PathChoices == UNION {[1..n -> {"/", "a", "z"}] : n \in 0..MaxPathLen}

\* 0.2 as the scene passes it, 1 and 3
RangeChoices == {[num |-> 1, den |-> 5], [num |-> 1, den |-> 1], [num |-> 3, den |-> 1]}

RotationInit ==
    /\ fs = <<>>
    /\ ScanOff /\ AppOff
    /\ callArgs \in {<<path, range>> : path \in PathChoices, range \in RangeChoices}
    /\ returned = Undefined

\* getRotationFromPath(path, range)
GetRotation ==
    /\ returned = Undefined
    /\ returned' = Some(getRotationFromPath(callArgs[1], callArgs[2]))
    /\ UNCHANGED <<fs, scanVars, appVars, callArgs>>

RotationNext == GetRotation

RotationSpec == RotationInit /\ [][RotationNext]_vars

------------------------------------------------------------------------------
(* C28 *)

\* C28: for every path and every positive range, the value returned by
\* getRotationFromPath lies within [-range/2, range/2].
C28_RotationWithinRange ==
    returned # Undefined =>
        LET range == callArgs[2]
            value == returned[1]
        IN \* -range/2 <= value <= range/2, both sides multiplied by 2 * den * range.den
           /\ -(range.num * value.den) <= 2 * value.num * range.den
           /\ 2 * value.num * range.den <= range.num * value.den

\* what does hold: the value lies within [-3 * range / 2, range / 2), and
\* within [-range/2, range/2) when the hash is not negative
C28_WithinWiderRange ==
    returned # Undefined =>
        LET range == callArgs[2]
            value == returned[1]
            hash == toInt32(hashOfPath(callArgs[1], <<0, 0>>))
        IN /\ -(3 * range.num * value.den) < 2 * value.num * range.den
           /\ 2 * value.num * range.den < range.num * value.den
           /\ hash >= 0 => -(range.num * value.den) <= 2 * value.num * range.den

------------------------------------------------------------------------------
(* The main process: list-directory *)

\* path.join(targetPath, entry.name)
pathJoin(dir, name) ==
    IF dir # <<>> /\ dir[Len(dir)] = Sep THEN dir \o name ELSE join(dir, name)

ImageExtensions ==
    << <<".","p","n","g">>, <<".","j","p","g">>, <<".","j","p","e","g">>,
       <<".","g","i","f">>, <<".","b","m","p">>, <<".","w","e","b","p">>,
       <<".","i","c","o">> >>

\* the FileEntry of one Dirent (thumbnail and preview, which are read from
\* the file and fall back to null, are left out: they decide how an entry
\* is drawn, not whether)
fileEntry(targetPath, entry) ==
    LET ext == IF entry.kind = "file" THEN Some(toLowerCase(extname(entry.name))) ELSE Null
    IN [name        |-> entry.name,
        path        |-> pathJoin(targetPath, entry.name),
        isDirectory |-> entry.kind = "directory",
        isFile      |-> entry.kind = "file",
        extension   |-> ext,
        isImage     |-> ext # Null /\ \E n \in 1..Len(ImageExtensions) : ImageExtensions[n] = ext[1]]

------------------------------------------------------------------------------
(* Scene *)

\* how many folders the shelf and how many files the desk take
ShelfPlaces == 8
DeskPlaces == 10

\* Scene: the folder objects on the shelf and the file objects on the desk,
\* each with its place; files.filter is SelectSeq (which of Picture, Book, Notepad and GenericFile a
\* file object is does not change their number)
Scene(fileEntries) ==
    LET isDirectory(f) == f.isDirectory
        isFile(f) == f.isFile
        folders == slice(SelectSeq(fileEntries, isDirectory), 0, ShelfPlaces)
        regularFiles == slice(SelectSeq(fileEntries, isFile), 0, DeskPlaces)
    IN [folderObjects |->
            [n \in 1..Len(folders) |->
                [filePath |-> folders[n].path, name |-> folders[n].name,
                 shelfLevel |-> (n - 1) \div 4, posOnShelf |-> (n - 1) % 4]],
        fileObjects |->
            [n \in 1..Len(regularFiles) |->
                [filePath |-> regularFiles[n].path, name |-> regularFiles[n].name,
                 row |-> (n - 1) \div 5, col |-> (n - 1) % 5,
                 rotation |-> getRotationFromPath(regularFiles[n].path,
                                                  [num |-> 1, den |-> 5])]]]

\* directories and regular files in one listing
MaxFolders == 9
MaxRegularFiles == 11

Workspace == <<"/","w">>

\* a listing of the workspace: regular files first, then directories, then
\* an entry that is neither (a link)
ListingOf(nFiles, nFolders, nOthers) ==
    [n \in 1..(nFiles + nFolders + nOthers) |->
        fileEntry(Workspace,
                  [name |-> <<LowerCase[n]>>
                            \o (IF n <= nFiles THEN <<".","t","x","t">> ELSE <<>>),
                   kind |-> IF n <= nFiles THEN "file"
                            ELSE IF n <= nFiles + nFolders THEN "directory" ELSE "other"])]

SceneInit ==
    /\ fs = <<>>
    /\ ScanOff /\ AppOff
    /\ callArgs \in {<<ListingOf(nFiles, nFolders, nOthers)>> :
                        nFiles \in 0..MaxRegularFiles, nFolders \in 0..MaxFolders,
                        nOthers \in 0..1}
    /\ returned = Undefined

\* <Scene files={files} ... />
RenderScene ==
    /\ returned = Undefined
    /\ returned' = Some(Scene(callArgs[1]))
    /\ UNCHANGED <<fs, scanVars, appVars, callArgs>>

SceneNext == RenderScene

SceneSpec == SceneInit /\ [][SceneNext]_vars

------------------------------------------------------------------------------
(* C21 *)

\* the paths of the objects of one kind in a rendered scene
PathsOf(objects) == {objects[n].filePath : n \in 1..Len(objects)}

\* C21: every entry of the listing is shown, whatever the size of the
\* listing: each directory as one folder object on the shelf and each
\* regular file as one object on the desk.
C21_EveryEntryShown ==
    returned # Undefined =>
        LET listing == callArgs[1]
            scene == returned[1]
            entries == {listing[n] : n \in 1..Len(listing)}
        IN /\ PathsOf(scene.folderObjects) = {e.path : e \in {f \in entries : f.isDirectory}}
           /\ Len(scene.folderObjects) = Cardinality({f \in entries : f.isDirectory})
           /\ PathsOf(scene.fileObjects) = {e.path : e \in {f \in entries : f.isFile}}
           /\ Len(scene.fileObjects) = Cardinality({f \in entries : f.isFile})

\* what does hold: the same for listings of at most 8 directories and at
\* most 10 regular files, and never an object for anything else
C21_WithinPlaces ==
    returned # Undefined =>
        LET listing == callArgs[1]
            scene == returned[1]
            entries == {listing[n] : n \in 1..Len(listing)}
            dirs == {f \in entries : f.isDirectory}
            regular == {f \in entries : f.isFile}
        IN /\ PathsOf(scene.folderObjects) \subseteq {e.path : e \in dirs}
           /\ PathsOf(scene.fileObjects) \subseteq {e.path : e \in regular}
           /\ Cardinality(dirs) <= 8
                 => /\ PathsOf(scene.folderObjects) = {e.path : e \in dirs}
                    /\ Len(scene.folderObjects) = Cardinality(dirs)
           /\ Cardinality(regular) <= 10
                 => /\ PathsOf(scene.fileObjects) = {e.path : e \in regular}
                    /\ Len(scene.fileObjects) = Cardinality(regular)

------------------------------------------------------------------------------
(* The main process: the disk and the handlers the renderer calls *)

RootPath == <<"/">>
DeskDir == <<"/","w","/","d">>
NotePath == <<"/","w","/","n",".","t","x","t">>
MemoPath == <<"/","w","/","d","/","m",".","t","x","t">>

\* the directories of the disk with their entries in readdir order
AppListing ==
    (RootPath :> << [name |-> <<"w">>, kind |-> "directory"] >>)
    @@ (Workspace :> << [name |-> <<"d">>, kind |-> "directory"],
                        [name |-> <<"n",".","t","x","t">>, kind |-> "file"] >>)
    @@ (DeskDir :> << [name |-> <<"m",".","t","x","t">>, kind |-> "file"] >>)

\* what a file holds: what it held at the start, or what the viewer wrote
Texts == {"stored", "edited"}

\* what can go wrong: readdirSync, readFileSync or writeFileSync throwing on
\* one path, or a call that is rejected instead of answered
AppFaults ==
    {<<"readdir", DeskDir>>, <<"read", NotePath>>, <<"write", NotePath>>,
     <<"ipc", "listDirectory">>, <<"ipc", "readFile">>, <<"ipc", "writeFile">>}

AppDisks ==
    {[listing |-> AppListing,
      content |-> (NotePath :> "stored") @@ (MemoPath :> "stored"),
      faults  |-> f] : f \in {g \in SUBSET AppFaults : Cardinality(g) <= MaxFaults}}

\* ipcMain.handle('list-directory')
listDirectory(disk, dirPath) ==
    LET targetPath == IF dirPath = <<>> THEN Workspace ELSE dirPath
    IN IF targetPath \notin DOMAIN disk.listing \/ <<"readdir", targetPath>> \in disk.faults
       THEN <<>>
       ELSE [n \in 1..Len(disk.listing[targetPath]) |->
                fileEntry(targetPath, disk.listing[targetPath][n])]

\* path.basename
basename(p) ==
    LET parts == split(p, Sep) IN parts[Len(parts)]

ReadImageExtensions ==
    << <<".","p","n","g">>, <<".","j","p","g">>, <<".","j","p","e","g">>,
       <<".","g","i","f">>, <<".","b","m","p">>, <<".","w","e","b","p">>,
       <<".","s","v","g">>, <<".","i","c","o">> >>

\* ipcMain.handle('read-file') (size and modified, which the renderer does
\* not read, are left out)
readFile(disk, filePath) ==
    IF filePath \notin DOMAIN disk.content \/ <<"read", filePath>> \in disk.faults
    THEN [success |-> FALSE]
    ELSE LET ext == toLowerCase(extname(filePath))
             image == \E n \in 1..Len(ReadImageExtensions) : ReadImageExtensions[n] = ext
         IN [success |-> TRUE,
             content |-> <<IF image THEN "data" ELSE "text", disk.content[filePath]>>,
             name    |-> basename(filePath),
             path    |-> filePath,
             isImage |-> image]

\* ipcMain.handle('write-file'): the answer and the disk afterwards
writeFile(disk, filePath, content) ==
    IF <<"write", filePath>> \in disk.faults
    THEN [result |-> [success |-> FALSE], disk |-> disk]
    ELSE [result |-> [success |-> TRUE],
          disk   |-> [disk EXCEPT !.content = (filePath :> content) @@ @]]

\* dialog.showOpenDialog: the directories the user may pick
DialogChoices == {DeskDir, RootPath}

------------------------------------------------------------------------------
(* App *)

\* times the user acts in one behaviour
MaxClicks == 2

\* a call to the main process that awaits its answer
Invoke(call, args, from) == [call |-> call, args |-> args, from |-> from]

without(seq, n) == SubSeq(seq, 1, n - 1) \o SubSeq(seq, n + 1, Len(seq))

\* what a step was: the handler or callback that ran, the path it was about,
\* how it came out, and what was on display before it
Step(step, path, outcome, was) ==
    [step |-> step, path |-> path, outcome |-> outcome, was |-> was]

\* String.prototype.split(/[/\\]/)
RECURSIVE splitPath(_)
splitPath(s) ==
    LET at == {i \in 1..Len(s) : s[i] = "/" \/ s[i] = "\\"}
    IN IF at = {} THEN <<s>>
       ELSE LET i == CHOOSE k \in at : \A j \in at : k <= j
            IN <<SubSeq(s, 1, i - 1)>> \o splitPath(SubSeq(s, i + 1, Len(s)))

\* Array.prototype.join(sep)
RECURSIVE joinWith(_, _)
joinWith(parts, sep) ==
    IF parts = <<>> THEN <<>>
    ELSE IF Len(parts) = 1 THEN parts[1]
    ELSE parts[1] \o <<sep>> \o joinWith(Tail(parts), sep)

\* an index counted from the end when negative, as slice takes it
relativeIndex(a, k) == IF k >= 0 THEN k ELSE IF Len(a) + k < 0 THEN 0 ELSE Len(a) + k

\* handleGoUp: currentDirectory.split(/[/\\]/).slice(0, -1).join('/')
parentPath(directory) ==
    LET parts == splitPath(directory)
    IN joinWith(slice(parts, 0, relativeIndex(parts, -1)), "/")

FailedToLoad == "Failed to load directory"
FailedToOpen == "Failed to open file"
FailedToSave == "Failed to save file"
FileSaved == "File saved!"
DirectoryLoaded == "Directory loaded!"

\* showToast(message): the toast is set and a timer of 3000 ms is started
showToast(message) ==
    /\ toast' = Some(message)
    /\ timers' = Append(timers, message)

\* loadDirectory(path) up to its await, the other calls awaiting being rest
loadDirectory(path, rest) ==
    /\ pending' = Append(rest, Invoke("listDirectory", <<path>>, "loadDirectory"))
    /\ loads' = Append(loads, path)

\* the state after the first render: the mount effect has called init, which
\* awaits getAppVersion
AppInit ==
    /\ fs \in AppDisks
    /\ ScanOff /\ FnOff
    /\ currentDirectory = <<>>
    /\ files = <<>>
    /\ openFile = Null
    /\ toast = Null
    /\ pending = <<Invoke("getAppVersion", <<>>, "init")>>
    /\ timers = <<>>
    /\ loads = <<>>
    /\ lastStep = Step("mount", <<>>, "", <<>>)
    /\ clicks = 0

\* init after getAppVersion: setVersion, then getWorkspaceDirectory is awaited
VersionArrives ==
    \E n \in 1..Len(pending) :
        /\ pending[n].call = "getAppVersion"
        /\ pending' = Append(without(pending, n), Invoke("getWorkspaceDirectory", <<>>, "init"))
        /\ lastStep' = Step("init", <<>>, "version", <<>>)
        /\ UNCHANGED <<fs, currentDirectory, files, openFile, toast, timers, loads, clicks>>
        /\ UNCHANGED <<scanVars, fnVars>>

\* init after getWorkspaceDirectory: setCurrentDirectory, then the listing of
\* the workspace is awaited
WorkspaceArrives ==
    \E n \in 1..Len(pending) :
        /\ pending[n].call = "getWorkspaceDirectory"
        /\ currentDirectory' = Workspace
        /\ pending' = Append(without(pending, n), Invoke("listDirectory", <<Workspace>>, "init"))
        /\ loads' = Append(loads, Workspace)
        /\ lastStep' = Step("init", Workspace, "workspace", <<>>)
        /\ UNCHANGED <<fs, files, openFile, toast, timers, clicks>>
        /\ UNCHANGED <<scanVars, fnVars>>

\* listDirectory answered or rejected: the rest of init or of loadDirectory
ListingArrives ==
    \E n \in 1..Len(pending) :
        LET request == pending[n]
            path == request.args[1]
            target == IF path = <<>> THEN Workspace ELSE path
            was == <<currentDirectory, files>>
        IN /\ request.call = "listDirectory"
           /\ pending' = without(pending, n)
           /\ IF <<"ipc", "listDirectory">> \in fs.faults
              THEN /\ lastStep' = Step(request.from, path, "rejected", was)
                   /\ UNCHANGED <<currentDirectory, files>>
                   /\ IF request.from = "loadDirectory"
                      THEN showToast(FailedToLoad)
                      ELSE UNCHANGED <<toast, timers>>
              ELSE /\ files' = listDirectory(fs, path)
                   /\ currentDirectory' =
                         IF request.from = "loadDirectory" THEN path ELSE currentDirectory
                   /\ lastStep' = Step(request.from, path,
                                       IF target \in DOMAIN fs.listing
                                          /\ <<"readdir", target>> \notin fs.faults
                                       THEN "listed" ELSE "failed", was)
                   /\ UNCHANGED <<toast, timers>>
           /\ UNCHANGED <<fs, openFile, loads, clicks>>
           /\ UNCHANGED <<scanVars, fnVars>>

\* handleFolderClick(folderPath), from a folder on the shelf
HandleFolderClick ==
    \E n \in 1..Len(Scene(files).folderObjects) :
        /\ clicks < MaxClicks
        /\ clicks' = clicks + 1
        /\ loadDirectory(Scene(files).folderObjects[n].filePath, pending)
        /\ lastStep' = Step("handleFolderClick", Scene(files).folderObjects[n].filePath, "", <<>>)
        /\ UNCHANGED <<fs, currentDirectory, files, openFile, toast, timers>>
        /\ UNCHANGED <<scanVars, fnVars>>

\* handleFileClick(filePath) up to its await, from an object on the desk
HandleFileClick ==
    \E n \in 1..Len(Scene(files).fileObjects) :
        /\ clicks < MaxClicks
        /\ clicks' = clicks + 1
        /\ pending' = Append(pending, Invoke("readFile", <<Scene(files).fileObjects[n].filePath>>,
                                             "handleFileClick"))
        /\ lastStep' = Step("handleFileClick", Scene(files).fileObjects[n].filePath, "", <<>>)
        /\ UNCHANGED <<fs, currentDirectory, files, openFile, toast, timers, loads>>
        /\ UNCHANGED <<scanVars, fnVars>>

\* readFile answered or rejected: the rest of handleFileClick
ReadArrives ==
    \E n \in 1..Len(pending) :
        LET request == pending[n]
            filePath == request.args[1]
            result == readFile(fs, filePath)
        IN /\ request.call = "readFile"
           /\ IF <<"ipc", "readFile">> \in fs.faults
              THEN /\ showToast(FailedToOpen)
                   /\ pending' = without(pending, n)
                   /\ lastStep' = Step("handleFileClick", filePath, "rejected", <<>>)
                   /\ UNCHANGED openFile
              ELSE IF result.success
              THEN /\ openFile' = Some([path |-> filePath, name |-> result.name,
                                        content |-> result.content, isImage |-> result.isImage])
                   /\ pending' = without(pending, n)
                   /\ lastStep' = Step("handleFileClick", filePath, "opened", <<>>)
                   /\ UNCHANGED <<toast, timers>>
              ELSE /\ pending' = Append(without(pending, n),
                                        Invoke("openFileExternal", <<filePath>>, "handleFileClick"))
                   /\ lastStep' = Step("handleFileClick", filePath, "external", <<>>)
                   /\ UNCHANGED <<openFile, toast, timers>>
           /\ UNCHANGED <<fs, currentDirectory, files, loads, clicks>>
           /\ UNCHANGED <<scanVars, fnVars>>

\* openFileExternal answered: handleFileClick ends
ExternalArrives ==
    \E n \in 1..Len(pending) :
        /\ pending[n].call = "openFileExternal"
        /\ pending' = without(pending, n)
        /\ lastStep' = Step("handleFileClick", pending[n].args[1], "shown outside", <<>>)
        /\ UNCHANGED <<fs, currentDirectory, files, openFile, toast, timers, loads, clicks>>
        /\ UNCHANGED <<scanVars, fnVars>>

\* the viewer's Save button, which a text file has: handleSaveFile(file.path,
\* content) up to its await, content being what the textarea holds
HandleSaveFile ==
    \E content \in Texts :
        /\ openFile # Null
        /\ ~openFile[1].isImage
        /\ clicks < MaxClicks
        /\ clicks' = clicks + 1
        /\ pending' = Append(pending, Invoke("writeFile", <<openFile[1].path, content>>,
                                             "handleSaveFile"))
        /\ lastStep' = Step("handleSaveFile", openFile[1].path, "", <<>>)
        /\ UNCHANGED <<fs, currentDirectory, files, openFile, toast, timers, loads>>
        /\ UNCHANGED <<scanVars, fnVars>>

\* the rest of handleSaveFile closing the viewer whatever the answer
WriteArrives_closingAlways ==
    \E n \in 1..Len(pending) :
        LET request == pending[n]
            written == writeFile(fs, request.args[1], request.args[2])
            rejected == <<"ipc", "writeFile">> \in fs.faults
        IN /\ request.call = "writeFile"
           /\ pending' = without(pending, n)
           /\ fs' = IF rejected THEN fs ELSE written.disk
           /\ showToast(IF ~rejected /\ written.result.success THEN FileSaved ELSE FailedToSave)
           /\ openFile' = Null
           /\ lastStep' = Step("handleSaveFile", request.args[1],
                               IF rejected THEN "rejected"
                               ELSE IF written.result.success THEN "saved" ELSE "failed",
                               openFile)
           /\ UNCHANGED <<currentDirectory, files, loads, clicks>>
           /\ UNCHANGED <<scanVars, fnVars>>

\* writeFile answered or rejected: the rest of handleSaveFile
WriteArrives ==
    \E n \in 1..Len(pending) :
        LET request == pending[n]
            written == writeFile(fs, request.args[1], request.args[2])
            rejected == <<"ipc", "writeFile">> \in fs.faults
        IN /\ request.call = "writeFile"
           /\ pending' = without(pending, n)
           /\ fs' = IF rejected THEN fs ELSE written.disk
           /\ IF ~rejected /\ written.result.success
              THEN /\ showToast(FileSaved)
                   /\ openFile' = Null
              ELSE /\ showToast(FailedToSave)
                   /\ UNCHANGED openFile
           /\ lastStep' = Step("handleSaveFile", request.args[1],
                               IF rejected THEN "rejected"
                               ELSE IF written.result.success THEN "saved" ELSE "failed",
                               openFile)
           /\ UNCHANGED <<currentDirectory, files, loads, clicks>>
           /\ UNCHANGED <<scanVars, fnVars>>

\* the viewer's onClose
CloseViewer ==
    /\ openFile # Null
    /\ clicks < MaxClicks
    /\ clicks' = clicks + 1
    /\ openFile' = Null
    /\ lastStep' = Step("onClose", <<>>, "", <<>>)
    /\ UNCHANGED <<fs, currentDirectory, files, toast, pending, timers, loads>>
    /\ UNCHANGED <<scanVars, fnVars>>

\* handleSelectDirectory up to its await (Open Folder...)
HandleSelectDirectory ==
    /\ clicks < MaxClicks
    /\ clicks' = clicks + 1
    /\ pending' = Append(pending, Invoke("selectDirectory", <<>>, "handleSelectDirectory"))
    /\ lastStep' = Step("handleSelectDirectory", <<>>, "", <<>>)
    /\ UNCHANGED <<fs, currentDirectory, files, openFile, toast, timers, loads>>
    /\ UNCHANGED <<scanVars, fnVars>>

\* selectDirectory answered with the picked directory, or with null when the
\* dialog was cancelled: the rest of handleSelectDirectory
SelectionArrives ==
    \E n \in 1..Len(pending), picked \in {Some(d) : d \in DialogChoices} \cup {Null} :
        /\ pending[n].call = "selectDirectory"
        /\ IF picked # Null /\ picked[1] # <<>>
           THEN /\ loadDirectory(picked[1], without(pending, n))
                /\ showToast(DirectoryLoaded)
                /\ lastStep' = Step("handleSelectDirectory", picked[1], "picked", <<>>)
           ELSE /\ pending' = without(pending, n)
                /\ lastStep' = Step("handleSelectDirectory", <<>>, "cancelled", <<>>)
                /\ UNCHANGED <<toast, timers, loads>>
        /\ UNCHANGED <<fs, currentDirectory, files, openFile, clicks>>
        /\ UNCHANGED <<scanVars, fnVars>>

\* handleGoUp (Go Up (Parent))
HandleGoUp ==
    /\ clicks < MaxClicks
    /\ clicks' = clicks + 1
    /\ IF parentPath(currentDirectory) # <<>>
       THEN /\ loadDirectory(parentPath(currentDirectory), pending)
            /\ lastStep' = Step("handleGoUp", parentPath(currentDirectory), "load",
                                <<currentDirectory>>)
       ELSE /\ lastStep' = Step("handleGoUp", <<>>, "nothing", <<currentDirectory>>)
            /\ UNCHANGED <<pending, loads>>
    /\ UNCHANGED <<fs, currentDirectory, files, openFile, toast, timers>>
    /\ UNCHANGED <<scanVars, fnVars>>

\* the Refresh button: loadDirectory(currentDirectory)
Refresh ==
    /\ clicks < MaxClicks
    /\ clicks' = clicks + 1
    /\ loadDirectory(currentDirectory, pending)
    /\ lastStep' = Step("refresh", currentDirectory, "", <<>>)
    /\ UNCHANGED <<fs, currentDirectory, files, openFile, toast, timers>>
    /\ UNCHANGED <<scanVars, fnVars>>

\* the oldest timer fires: setToast(null)
TimerFires ==
    /\ timers # <<>>
    /\ toast' = Null
    /\ timers' = Tail(timers)
    /\ lastStep' = Step("timer", <<>>, timers[1], <<toast>>)
    /\ UNCHANGED <<fs, currentDirectory, files, openFile, pending, loads, clicks>>
    /\ UNCHANGED <<scanVars, fnVars>>

AppNext ==
    \/ VersionArrives
    \/ WorkspaceArrives
    \/ ListingArrives
    \/ HandleFolderClick
    \/ HandleFileClick
    \/ ReadArrives
    \/ ExternalArrives
    \/ HandleSaveFile
    \/ WriteArrives
    \/ CloseViewer
    \/ HandleSelectDirectory
    \/ SelectionArrives
    \/ HandleGoUp
    \/ Refresh
    \/ TimerFires

AppSpec == AppInit /\ [][AppNext]_vars

------------------------------------------------------------------------------
(* C23 *)

\* C23: once every listing asked for has been answered, the directory and the
\* entries on display are those of the directory asked for last, whatever
\* the order of the answers.
C23_LastRequestedWins ==
    (/\ loads # <<>>
     /\ <<"ipc", "listDirectory">> \notin fs.faults
     /\ \A n \in 1..Len(pending) : pending[n].call # "listDirectory")
        => /\ currentDirectory = loads[Len(loads)]
           /\ files = listDirectory(fs, loads[Len(loads)])

\* the answers of the initial load and of a folder click arrived in the
\* opposite order, and the workspace asked for first stays on display
C23_OlderListingStays ==
    /\ loads = <<Workspace, DeskDir>>
    /\ pending = <<>>
    /\ files = listDirectory(fs, Workspace)
    /\ <<"readdir", DeskDir>> \notin fs.faults

------------------------------------------------------------------------------
(* C24 *)

\* C24: when the listing of the directory handed to loadDirectory fails (the
\* path does not exist or cannot be read), the toast 'Failed to load
\* directory' is shown, and the directory and the entries on display stay as
\* they were.
C24_FailedListingKeepsDisplay ==
    (lastStep.step = "loadDirectory" /\ lastStep.outcome = "failed")
        => /\ toast = Some(FailedToLoad)
           /\ <<currentDirectory, files>> = lastStep.was

\* what does hold: the same when the call itself is rejected
C24_RejectedListingKeepsDisplay ==
    (lastStep.step = "loadDirectory" /\ lastStep.outcome = "rejected")
        => /\ toast = Some(FailedToLoad)
           /\ <<currentDirectory, files>> = lastStep.was

------------------------------------------------------------------------------
(* C25 *)

\* C25: when the write of a save fails (write-file answers success: false,
\* or the call is rejected), the viewer stays as it was and the toast
\* 'Failed to save file' is shown; a save closes the viewer only when the
\* write answered success.
C25_FailedSaveKeepsViewer ==
    /\ (lastStep.step = "handleSaveFile" /\ lastStep.outcome \in {"failed", "rejected"})
          => /\ openFile = lastStep.was
             /\ toast = Some(FailedToSave)
    /\ (lastStep.step = "handleSaveFile" /\ lastStep.was # Null /\ openFile = Null)
          => lastStep.outcome = "saved"

C25_Witness ==
    /\ lastStep.step = "handleSaveFile"
    /\ lastStep.outcome = "failed"
    /\ openFile # Null
    /\ openFile[1].path = lastStep.path
    /\ toast = Some(FailedToSave)

------------------------------------------------------------------------------
(* C26 *)

\* C26: a toast stays on display until the timer that its own showToast call
\* started fires: while the timer started last has not fired, the toast that
\* was shown with it is on display.
C26_ToastOutlivesOlderTimers ==
    timers # <<>> => toast = Some(timers[Len(timers)])

------------------------------------------------------------------------------
(* C27 *)

\* the directory that holds path: path up to its last separator, the root
\* when nothing comes before that separator
holderOf(path) ==
    LET at == {i \in 1..Len(path) : path[i] = "/" \/ path[i] = "\\"}
        last == CHOOSE k \in at : \A j \in at : j <= k
    IN IF last = 1 THEN <<path[1]>> ELSE SubSeq(path, 1, last - 1)

\* C27: Go Up from a directory that has a parent loads that parent, the
\* root of the file system included; from a root or from the empty path it
\* does nothing.
C27_GoUpLoadsParent ==
    lastStep.step = "handleGoUp" =>
        LET directory == lastStep.was[1]
        IN IF directory # <<>> /\ directory # RootPath
           THEN /\ lastStep.outcome = "load"
                /\ loads # <<>>
                /\ loads[Len(loads)] = holderOf(directory)
           ELSE lastStep.outcome = "nothing"

\* what does hold: the same for the directories below the top level
C27_GoUpBelowTopLevel ==
    lastStep.step = "handleGoUp" =>
        LET directory == lastStep.was[1]
        IN IF directory # <<>> /\ directory # RootPath
           THEN holderOf(directory) # RootPath
                   => /\ lastStep.outcome = "load"
                      /\ loads # <<>>
                      /\ loads[Len(loads)] = holderOf(directory)
           ELSE lastStep.outcome = "nothing"

====
